---- MODULE Spec2Model ----
\* The task-flow canvas of ProjectFlowDisplay.tsx: the graph of tasks it is
\* handed, the role-derived capabilities, the pointer gestures (move, connect,
\* delete edge), the callbacks the gestures issue to the owner of the graph,
\* and the connector geometry derived from the graph.
EXTENDS Integers, Sequences, FiniteSets, TLC

\* ------------------------------------------------------------------ bounds

\* Most entries the command history may hold before further commits are held back.
MaxHistory == 2
\* Most tasks the initial project holds (the id universe holds one more).
MaxInitTasks == 2
\* Most recomputes scheduled by drops that may be pending at once.
MaxDropTimers == 1
\* The pointer grid: client coordinates are multiples of Grid.
Grid == 1000
\* Most entries the history holds where one card is moved again and again.
MaxMoves == 3
\* How many visibility toggles are started in a run.
MaxToggles == 3
\* Longest activity log at which a direct project update is still made.
MaxLog == 2

\* ------------------------------------------------------------ value spaces

Ids == {"t1", "t2", "t3", "t4"}
NoId == "null"
Roles == {"owner", "admin", "editor", "viewer"}
Statuses == {"NotStarted", "Completed"}

\* A position that was never set (task.position is undefined).
NoPos == [set |-> FALSE, x |-> 0, y |-> 0]
Pos(px, py) == [set |-> TRUE, x |-> px, y |-> py]

\* connectingState === null
NoConn == [active |-> FALSE, fromId |-> NoId, fromPos |-> [x |-> 0, y |-> 0]]

\* Fallback card extent used when the dragged card cannot be measured.
DefaultCardWidth == 380
DefaultCardHeight == 280

\* What the DOM reports at a pointer event: the pointer, the container's
\* client rectangle origin and scroll offset.
ClientCoords == {0, Grid}
\* scrollWidth/scrollHeight of the container and offsetWidth/offsetHeight of
\* the dragged card. Where nothing is laid out all four are reported as 0: the
\* card then counts with its fallback extent, on a canvas of extent 0.
ScrollWidths == {0, 1380}
ScrollHeights == {0, 1280}
CardWidths == {0, 380}
CardHeights == {0, 280}

VARIABLES
    tasks,            \* props.tasks: sequence of task records, in array order
    usedIds,          \* ids generateUniqueId has handed out so far
    userRole,         \* useState('viewer')
    connectingState,  \* useState(null)
    draggedTaskId,    \* draggedTaskIdRef.current
    dragOffset,       \* dragOffsetRef.current
    grab,             \* what the last dragStart that set them saw: the pointer and the task's position
    undoStack,        \* command history, oldest first
    redoStack,        \* forward stack, next redo last
    historyLimit,     \* how many of the newest entries the history keeps (fixed per run)
    mounted,          \* ids whose taskCardRefs entry has a non-null .current
    connectors,       \* useState<ConnectorInfo[]>([])
    debounce,         \* the 50 ms recompute timer of the [calculateConnectors, tasks] effect is pending
    dropTimers,       \* pending setTimeout(calculateConnectors, 0) of handleDrop: the task lists their closures hold
    timeline,         \* commit order: the graph the history started from, then the graph after each commit it still holds
    head,             \* the place of the current graph in timeline
    currentProjectId, \* props.currentProjectId (NoId: no project is open)
    channels,         \* the open change subscriptions, in the order they were opened
    alive,            \* the component is mounted
    db,               \* the rows the server holds of project p1: the project, its members, invitations and activity log
    rpc,              \* service calls under way between their awaits, and how many visibility toggles have completed
    acceptModal,      \* InvitationAcceptModal: isAccepting, error, success and the project handed to onSuccess
    isSaving,         \* useState(false)
    isPublic,         \* useState(false)
    isMembersModalOpen, \* useState(false)
    isInviting,       \* ProjectMembersModal: useState(false)
    modalError,       \* ProjectMembersModal: error, shown by ErrorMessage (NoId: null)
    pending,          \* collaborator calls in flight
    last              \* the handler that ran last and the callbacks it issued

vars == <<tasks, usedIds, userRole, connectingState, draggedTaskId, dragOffset, grab,
          undoStack, redoStack, historyLimit, mounted, connectors, debounce, dropTimers,
          timeline, head, currentProjectId, channels, alive, db, rpc, acceptModal, isSaving, isPublic,
          isMembersModalOpen, isInviting, modalError, pending, last>>

\* ------------------------------------------------------------------ helpers

Range(s) == {s[i] : i \in DOMAIN s}

TaskIds(ts) == {ts[i].id : i \in DOMAIN ts}

\* tasks.find(t => t.id === id); only used where the id is present
FindTask(ts, id) == ts[CHOOSE i \in DOMAIN ts : ts[i].id = id /\ \A j \in DOMAIN ts : ts[j].id = id => i <= j]

HasTask(ts, id) == id \in TaskIds(ts)

\* task.position?.x || 0
PosX(t) == IF t.position.set THEN t.position.x ELSE 0
PosY(t) == IF t.position.set THEN t.position.y ELSE 0

Max(a, b) == IF a >= b THEN a ELSE b
Min(a, b) == IF a <= b THEN a ELSE b

\* Array.from(new Set(xs)): first occurrences, in order
RECURSIVE Dedup(_)
Dedup(xs) ==
    IF xs = <<>> THEN <<>>
    ELSE LET front == Dedup(SubSeq(xs, 1, Len(xs) - 1))
             x == xs[Len(xs)]
         IN IF x \in Range(front) THEN front ELSE Append(front, x)

\* xs.filter(id => id !== gone)
Without(xs, gone) == SelectSeq(xs, LAMBDA id : id # gone)

\* The directed edges a task list implies.
Edges(ts) == {<<ts[i].id, t>> : i \in DOMAIN ts, t \in Ids} \cap
             {e \in Ids \X Ids : \E i \in DOMAIN ts : ts[i].id = e[1] /\ e[2] \in Range(ts[i].nextTaskIds)}

\* ------------------------------------------------------------ capabilities

canEdit == userRole = "owner" \/ userRole = "admin" \/ userRole = "editor"
\* A management capability that every editing role has.
canManageAsEdit == canEdit
canManage == userRole = "owner" \/ userRole = "admin"
\* ProjectMembersModal receives userRole as a prop
canManageMembers == userRole = "owner" \/ userRole = "admin"

\* ------------------------------------------------------------- graph store
\* The owner of props.tasks (the component's parent) is outside the source
\* files; its operations follow section 4.1 of the design.

NewTask(id) == [id |-> id, position |-> NoPos, nextTaskIds |-> <<>>, status |-> "NotStarted"]

addNode(ts, id) == Append(ts, NewTask(id))

updateNodePosition(ts, id, pos) ==
    [i \in DOMAIN ts |-> IF ts[i].id = id THEN [ts[i] EXCEPT !.position = pos] ELSE ts[i]]

updateNodeStatus(ts, id, st) ==
    [i \in DOMAIN ts |-> IF ts[i].id = id THEN [ts[i] EXCEPT !.status = st] ELSE ts[i]]

setNodeConnections(ts, id, next) ==
    [i \in DOMAIN ts |-> IF ts[i].id = id THEN [ts[i] EXCEPT !.nextTaskIds = next] ELSE ts[i]]

\* A removal that forgets the edges pointing at the removed node.
removeNodeKeepEdges(ts, id) == SelectSeq(ts, LAMBDA t : t.id # id)

removeNode(ts, id) ==
    LET kept == SelectSeq(ts, LAMBDA t : t.id # id)
    IN [i \in DOMAIN kept |-> [kept[i] EXCEPT !.nextTaskIds = Without(@, id)]]

\* Bulk auto-layout: every node is given a set position, one grid column per
\* two nodes (the design names the operation, not its placement rule).
autoLayout(ts) ==
    [i \in DOMAIN ts |-> [ts[i] EXCEPT !.position = Pos(((i - 1) % 2) * Grid, 0)]]

\* The graph of a task list: its nodes in order, their positions and edges.
GraphOf(ts) ==
    [i \in DOMAIN ts |-> [id |-> ts[i].id, position |-> ts[i].position,
                          nextTaskIds |-> ts[i].nextTaskIds]]

\* ---------------------------------------------------------- command history
\* Section 4.4 of the design: snapshot pairs, an undo and a redo stack.

canUndo == undoStack # <<>>
canRedo == redoStack # <<>>

HistoryEntry(before, after) == [before |-> before, after |-> after]

\* A history that records the post-mutation snapshot on both sides.
pushUndoAfterOnly(stack, before, after) == Append(stack, HistoryEntry(after, after))

\* The stacks after a committed mutation from `before` to `after`.
pushUndo(stack, before, after) == Append(stack, HistoryEntry(before, after))

\* A commit that leaves the forward stack as it is.
clearRedoKeeps(stack) == stack

\* The forward stack after a committed mutation.
clearRedo(stack) == <<>>

\* An undo that takes an empty stack for a step back to the current graph.
undoRecordsOnEmpty(h) ==
    LET entry == IF h.undoStack = <<>> THEN HistoryEntry(h.tasks, h.tasks)
                 ELSE h.undoStack[Len(h.undoStack)]
    IN [tasks |-> entry.before,
        undoStack |-> SubSeq(h.undoStack, 1, Len(h.undoStack) - 1),
        redoStack |-> Append(h.redoStack, entry)]

\* An undo that takes back the oldest commit first.
undoOldestFirst(h) ==
    IF h.undoStack = <<>> THEN h
    ELSE LET entry == h.undoStack[1]
         IN [tasks |-> entry.before,
             undoStack |-> Tail(h.undoStack),
             redoStack |-> Append(h.redoStack, entry)]

\* undo(): pop from undo, apply its before snapshot, push the entry onto
\* redo; a no-op on an empty stack. h is the graph with its two stacks.
undo(h) ==
    IF h.undoStack = <<>> THEN h
    ELSE LET entry == h.undoStack[Len(h.undoStack)]
         IN [tasks |-> entry.before,
             undoStack |-> SubSeq(h.undoStack, 1, Len(h.undoStack) - 1),
             redoStack |-> Append(h.redoStack, entry)]

\* redo(): pop from redo, apply its after snapshot, push back onto undo; a
\* no-op on an empty stack.
redo(h) ==
    IF h.redoStack = <<>> THEN h
    ELSE LET entry == h.redoStack[Len(h.redoStack)]
         IN [tasks |-> entry.after,
             undoStack |-> Append(h.undoStack, entry),
             redoStack |-> SubSeq(h.redoStack, 1, Len(h.redoStack) - 1)]

\* The design leaves the cap of the history open; a history keeping the
\* newest n entries (n = 0: no history) stands for it.
keepNewest(stack, n) ==
    IF Len(stack) <= n THEN stack ELSE SubSeq(stack, Len(stack) - n + 1, Len(stack))

\* Room left in the history for one more commit without dropping an entry.
HistoryRoom == Len(undoStack) < historyLimit

\* ---------------------------------------------------------------- geometry

\* getBoundingClientRect() of a mounted card
CardRects == {[width |-> 380, height |-> 280]}

\* `conn-${sourceTask.id}-${targetId}`
ConnectorId(sourceId, targetId) == "conn-" \o sourceId \o "-" \o targetId

\* A connector that ends at the height of the source card's middle.
ConnectorLevel(src, tgt, rect) ==
    [id |-> ConnectorId(src.id, tgt.id), sourceId |-> src.id, targetId |-> tgt.id,
     from |-> [x |-> PosX(src) + rect[src.id].width, y |-> PosY(src) + (rect[src.id].height \div 2)],
     to |-> [x |-> PosX(tgt), y |-> PosY(tgt) + (rect[src.id].height \div 2)]]

Connector(src, tgt, rect) ==
    [id |-> ConnectorId(src.id, tgt.id), sourceId |-> src.id, targetId |-> tgt.id,
     from |-> [x |-> PosX(src) + rect[src.id].width, y |-> PosY(src) + (rect[src.id].height \div 2)],
     to |-> [x |-> PosX(tgt), y |-> PosY(tgt) + (rect[tgt.id].height \div 2)]]

\* sourceTask.nextTaskIds.forEach(...): the connectors of the first k targets
RECURSIVE TargetConnectors(_, _, _, _, _)
TargetConnectors(ts, mnt, rect, src, k) ==
    IF k = 0 THEN <<>>
    ELSE LET front == TargetConnectors(ts, mnt, rect, src, k - 1)
             targetId == src.nextTaskIds[k]
         IN IF ~HasTask(ts, targetId) THEN front
            ELSE IF targetId \notin mnt THEN front
            ELSE Append(front, Connector(src, FindTask(ts, targetId), rect))

\* tasks.forEach(sourceTask => ...): the connectors of the first n tasks
RECURSIVE SourceConnectors(_, _, _, _)
SourceConnectors(ts, mnt, rect, n) ==
    IF n = 0 THEN <<>>
    ELSE LET front == SourceConnectors(ts, mnt, rect, n - 1)
             src == ts[n]
         IN IF src.nextTaskIds = <<>> THEN front
            ELSE IF src.id \notin mnt THEN front
            ELSE front \o TargetConnectors(ts, mnt, rect, src, Len(src.nextTaskIds))

\* A recompute that draws every edge of the list, measurable or not.
calculateConnectorsUnmounted(ts, mnt, rect) == SourceConnectors(ts, TaskIds(ts), rect, Len(ts))

\* A recompute that gives up the whole pass when a card cannot be measured.
calculateConnectorsAllOrNothing(ts, mnt, rect) ==
    IF TaskIds(ts) \subseteq mnt THEN SourceConnectors(ts, mnt, rect, Len(ts)) ELSE <<>>

\* The list calculateConnectors stores, run from a closure over task list ts
\* while the cards in mnt are mounted. No card is mounted unless the ref map
\* has an entry for it, so an empty map yields the empty list here as well.
calculateConnectors(ts, mnt, rect) == SourceConnectors(ts, mnt, rect, Len(ts))

\* ------------------------------------------------------------------- state

storeVars == <<tasks, usedIds, undoStack, redoStack, historyLimit, timeline, head>>
sessionVars == <<currentProjectId, channels, alive, db, rpc, acceptModal, isSaving, isPublic, isMembersModalOpen,
                 isInviting, modalError, pending>>
gestureVars == <<connectingState, draggedTaskId, dragOffset, grab>>
geomVars == <<mounted, connectors, debounce, dropTimers>>

\* The ids in the order generateUniqueId hands them out.
IdSeq == <<"t1", "t2", "t3">>

NoOffset == [x |-> 0, y |-> 0]

\* No dragStart has been handled yet.
NoGrab == [x |-> 0, y |-> 0, position |-> NoPos]

\* A callback issued to the parent.
Call(fn, id, pos, next, st) ==
    [fn |-> fn, id |-> id, position |-> pos, nextTaskIds |-> next, status |-> st]

\* A collaborator call that has not settled yet, or a change notification
\* under way to this client. Calls of one kind for one project are not told
\* apart.
InFlight(op, projectId) == [op |-> op, project |-> projectId]

\* The record of the handler that ran: its name, the id it was given, the
\* gesture's source id and the task list before it ran, and the callbacks it
\* issued.
Ran(op, id, src, cs) == [op |-> op, id |-> id, from |-> src, calls |-> cs, before |-> tasks]

\* Initial task lists: the first k ids, unconnected or connected in a chain
\* or a cycle, at the origin or with the position unset.
InitNext(k) ==
    {[i \in 1..k |-> <<>>]} \cup
    {[i \in 1..k |-> IF i < k THEN <<IdSeq[i + 1]>> ELSE <<>>]} \cup
    {[i \in 1..k |-> IF i > 1 THEN SubSeq(IdSeq, 1, i - 1) ELSE <<>>]}

InitTasks ==
    UNION {{[i \in 1..k |-> [id |-> IdSeq[i], position |-> p, nextTaskIds |-> nx[i],
                               status |-> "NotStarted"]] :
            nx \in InitNext(k), p \in {NoPos, Pos(0, 0)}} : k \in 0..MaxInitTasks}

\* supabase.channel(`project-${projectId}`) with its two postgres_changes
\* listeners, both handed the same callback.
subscribeToProjectUpdates(projectId) ==
    [name |-> projectId, tables |-> {"projects", "project_members"}]

\* The people with an account, and the address of each.
Users == {"ann", "bob"}
EmailOf(user) == IF user = "ann" THEN "ann@x" ELSE "bob@x"
UserEmails == {EmailOf(user) : user \in Users}

\* No invitation row for an address.
NoInv == [role |-> NoId, invitedBy |-> NoId, accepted |-> FALSE, expired |-> FALSE]

\* The rows after ann created project p1: is_public defaults to false and the
\* insert trigger made her a member with role 'owner'.
InitDb ==
    [exists |-> TRUE,
     isPublic |-> FALSE,
     members |-> [user \in Users |-> IF user = "ann" THEN "owner" ELSE NoId],
     invitations |-> [email \in UserEmails |-> NoInv],
     log |-> <<>>]

\* No service call under way, no toggle completed.
NoRpc == [calls |-> {}, toggles |-> 0]

\* useState(false), useState(null), useState(false) of the accept modal; no
\* project waits to be handed to onSuccess.
NoAccept == [isAccepting |-> FALSE, error |-> NoId, success |-> FALSE, redirect |-> NoId]

\* The state after the first render of project p1: nothing is mounted or measured yet, the recompute
\* timer is armed and the change subscription is open. role is 'viewer' until
\* the lookup resolves; limit is the cap of the parent's history.
InitStarted(ts, role, limit, started) ==
    /\ tasks = ts
    /\ usedIds = TaskIds(tasks)
    /\ userRole = role
    /\ connectingState = NoConn
    /\ draggedTaskId = NoId
    /\ dragOffset = NoOffset
    /\ grab = NoGrab
    /\ undoStack = <<>>
    /\ redoStack = <<>>
    /\ historyLimit = limit
    /\ mounted = {}
    /\ connectors = <<>>
    /\ debounce = TRUE
    /\ dropTimers = {}
    /\ timeline = <<GraphOf(ts)>>
    /\ head = 1
    /\ currentProjectId = "p1"
    /\ channels = <<subscribeToProjectUpdates("p1")>>
    /\ alive = TRUE
    /\ db = InitDb
    /\ rpc = NoRpc
    /\ acceptModal = NoAccept
    /\ isSaving = FALSE
    /\ isPublic = FALSE
    /\ isMembersModalOpen = FALSE
    /\ isInviting = FALSE
    /\ modalError = NoId
    /\ pending = started
    /\ last = Ran("mount", NoId, NoId, <<>>)

\* The same with the calls of the mount effects left out of account.
InitWith(ts, role, limit) == InitStarted(ts, role, limit, {})

\* A re-render that leaves the 50 ms timer as it was.
RerenderedKeepsTimer(newTasks) ==
    /\ mounted' = mounted \cap TaskIds(newTasks)
    /\ UNCHANGED debounce

\* What a re-render with a new task list does besides showing it: cards of
\* removed tasks unmount, and the [calculateConnectors, tasks] effect re-arms
\* the 50 ms timer (clearing the one pending).
Rerendered(newTasks) ==
    /\ mounted' = mounted \cap TaskIds(newTasks)
    /\ debounce' = TRUE

\* The parent applies a graph mutation and records it in the history.
Committed(newTasks) ==
    /\ tasks' = newTasks
    /\ undoStack' = keepNewest(pushUndo(undoStack, tasks, newTasks), historyLimit)
    /\ redoStack' = clearRedo(redoStack)
    /\ timeline' = keepNewest(Append(SubSeq(timeline, 1, head), GraphOf(newTasks)), historyLimit + 1)
    /\ head' = Len(timeline')
    /\ UNCHANGED historyLimit
    /\ Rerendered(newTasks)

\* A handler that returns without touching anything.
Ignored(op, id, src) ==
    /\ last' = Ran(op, id, src, <<>>)
    /\ UNCHANGED <<storeVars, userRole, gestureVars, geomVars, sessionVars>>

\* ------------------------------------------------------------ move gesture

\* A clamp that forgets the lower bound.
clampAxisUpperOnly(v, scrollable, card) == Min(v, scrollable - card)

\* Math.max(0, Math.min(v, scrollable - card))
clampAxis(v, scrollable, card) == Max(0, Min(v, scrollable - card))

\* draggedCardElement?.offsetWidth || 380
cardExtent(id, measured, fallback) ==
    IF id \in mounted /\ measured # 0 THEN measured ELSE fallback

\* The position handleDrop commits for pointer (cx, cy), container origin
\* (left, top), scrollable extent (sw, sh) and measured card extent (ow, oh).
dropPosition(cx, cy, left, top, sw, sh, ow, oh) ==
    Pos(clampAxis(cx - left - dragOffset.x, sw, cardExtent(draggedTaskId, ow, DefaultCardWidth)),
        clampAxis(cy - top - dragOffset.y, sh, cardExtent(draggedTaskId, oh, DefaultCardHeight)))

\* A dragStart that takes the pointer's place in the container for the offset.
handleDragCardStartFromOrigin(taskId, cx, cy, left, top) ==
    IF ~canEdit THEN Ignored("dragStart", taskId, NoId)
    ELSE /\ draggedTaskId' = taskId
         /\ grab' = [x |-> cx, y |-> cy, position |-> FindTask(tasks, taskId).position]
         /\ dragOffset' = [x |-> cx - left, y |-> cy - top]
         /\ last' = Ran("dragStart", taskId, NoId, <<>>)
         /\ UNCHANGED <<storeVars, userRole, connectingState, geomVars, sessionVars>>

handleDragCardStart(taskId, cx, cy, left, top) ==
    IF ~canEdit THEN Ignored("dragStart", taskId, NoId)
    ELSE /\ draggedTaskId' = taskId
         /\ grab' = [x |-> cx, y |-> cy, position |-> FindTask(tasks, taskId).position]
         /\ dragOffset' = [x |-> cx - left - PosX(FindTask(tasks, taskId)),
                           y |-> cy - top - PosY(FindTask(tasks, taskId))]
         /\ last' = Ran("dragStart", taskId, NoId, <<>>)
         /\ UNCHANGED <<storeVars, userRole, connectingState, geomVars, sessionVars>>

\* The browser's dragend on a card: the drag is over, by a drop on the canvas
\* or without one (released elsewhere, or cancelled). Neither the canvas nor
\* the card wiring handles the event, so the refs stay as they are.
dragEnds == Ignored("dragEnd", NoId, draggedTaskId)

\* Only tells the browser the canvas accepts the drop.
handleDragOver == Ignored("dragOver", NoId, NoId)

\* A drop that commits and leaves the dragged id set.
handleDropKeepsDragged(cx, cy, left, top, sw, sh, ow, oh) ==
    IF ~canEdit THEN Ignored("drop", NoId, draggedTaskId)
    ELSE IF draggedTaskId = NoId THEN Ignored("drop", NoId, draggedTaskId)
    ELSE LET newPos == dropPosition(cx, cy, left, top, sw, sh, ow, oh)
         IN /\ Cardinality(dropTimers) < MaxDropTimers
            /\ Committed(updateNodePosition(tasks, draggedTaskId, newPos))
            /\ dropTimers' = dropTimers \cup {tasks}
            /\ last' = Ran("drop", NoId, draggedTaskId,
                           <<Call("onUpdateTaskPosition", draggedTaskId, newPos, <<>>, "")>>)
            /\ UNCHANGED <<usedIds, userRole, gestureVars, connectors, sessionVars>>

handleDrop(cx, cy, left, top, sw, sh, ow, oh) ==
    IF ~canEdit THEN Ignored("drop", NoId, draggedTaskId)
    ELSE IF draggedTaskId = NoId THEN Ignored("drop", NoId, draggedTaskId)
    ELSE LET newPos == dropPosition(cx, cy, left, top, sw, sh, ow, oh)
         IN /\ Cardinality(dropTimers) < MaxDropTimers
            /\ Committed(updateNodePosition(tasks, draggedTaskId, newPos))
            /\ draggedTaskId' = NoId
            /\ dropTimers' = dropTimers \cup {tasks}
            /\ last' = Ran("drop", NoId, draggedTaskId,
                           <<Call("onUpdateTaskPosition", draggedTaskId, newPos, <<>>, "")>>)
            /\ UNCHANGED <<usedIds, userRole, connectingState, dragOffset, grab, connectors, sessionVars>>

\* --------------------------------------------------------- connect gesture

handleStartConnection(taskId, cx, cy, left, top, scrollLeft, scrollTop) ==
    IF ~canEdit THEN Ignored("startConnection", taskId, NoId)
    ELSE /\ connectingState' = [active |-> TRUE, fromId |-> taskId,
                                fromPos |-> [x |-> cx - left + scrollLeft,
                                             y |-> cy - top + scrollTop]]
         /\ last' = Ran("startConnection", taskId, NoId, <<>>)
         /\ UNCHANGED <<storeVars, userRole, draggedTaskId, dragOffset, grab, geomVars, sessionVars>>

\* A target list with the new target put first.
connectTargetsFirst(next, targetTaskId) == Dedup(<<targetTaskId>> \o next)

\* A target list built without the Set.
connectTargetsAppend(next, targetTaskId) == Append(next, targetTaskId)

\* Array.from(new Set([...(sourceTask.nextTaskIds || []), targetTaskId]))
connectTargets(next, targetTaskId) == Dedup(Append(next, targetTaskId))

\* A cancel test that forgets the gesture ending on the node it started on.
cancelsConnectionInactiveOnly(targetTaskId) == ~connectingState.active

\* !connectingState || connectingState.fromId === targetTaskId
cancelsConnection(targetTaskId) ==
    ~connectingState.active \/ connectingState.fromId = targetTaskId

handleEndConnection(targetTaskId) ==
    IF ~canEdit THEN Ignored("endConnection", targetTaskId, connectingState.fromId)
    ELSE IF cancelsConnection(targetTaskId)
    THEN /\ connectingState' = NoConn
         /\ last' = Ran("endConnection", targetTaskId, connectingState.fromId, <<>>)
         /\ UNCHANGED <<storeVars, userRole, draggedTaskId, dragOffset, grab, geomVars, sessionVars>>
    ELSE IF HasTask(tasks, connectingState.fromId)
    THEN LET sourceTask == FindTask(tasks, connectingState.fromId)
             newNextTaskIds == connectTargets(sourceTask.nextTaskIds, targetTaskId)
         IN /\ Committed(setNodeConnections(tasks, sourceTask.id, newNextTaskIds))
            /\ connectingState' = NoConn
            /\ last' = Ran("endConnection", targetTaskId, connectingState.fromId,
                           <<Call("onUpdateTaskConnections", sourceTask.id, NoPos, newNextTaskIds, "")>>)
            /\ UNCHANGED <<usedIds, userRole, draggedTaskId, dragOffset, grab, connectors, dropTimers, sessionVars>>
    ELSE /\ connectingState' = NoConn
         /\ last' = Ran("endConnection", targetTaskId, connectingState.fromId, <<>>)
         /\ UNCHANGED <<storeVars, userRole, draggedTaskId, dragOffset, grab, geomVars, sessionVars>>

\* A pointer-up that cancels only for a role that may edit.
clearedOnMouseUpGated == IF canEdit /\ connectingState.active THEN NoConn ELSE connectingState

\* if (connectingState) setConnectingState(null)
clearedOnMouseUp == IF connectingState.active THEN NoConn ELSE connectingState

handleMouseUp ==
    /\ connectingState' = clearedOnMouseUp
    /\ last' = Ran("mouseUp", NoId, connectingState.fromId, <<>>)
    /\ UNCHANGED <<storeVars, userRole, draggedTaskId, dragOffset, grab, geomVars, sessionVars>>

\* ------------------------------------------------------------- delete edge

\* A filter that also drops whatever follows the target.
disconnectTargetsTruncate(next, targetTaskId) ==
    IF targetTaskId \in Range(next)
    THEN SubSeq(next, 1, (CHOOSE i \in DOMAIN next : next[i] = targetTaskId) - 1)
    ELSE next

\* (sourceTask.nextTaskIds || []).filter(id => id !== targetTaskId)
disconnectTargets(next, targetTaskId) == Without(next, targetTaskId)

handleDeleteConnection(sourceTaskId, targetTaskId) ==
    IF ~canEdit THEN Ignored("deleteConnection", targetTaskId, sourceTaskId)
    ELSE IF HasTask(tasks, sourceTaskId)
    THEN LET sourceTask == FindTask(tasks, sourceTaskId)
             newNextTaskIds == disconnectTargets(sourceTask.nextTaskIds, targetTaskId)
         IN /\ Committed(setNodeConnections(tasks, sourceTask.id, newNextTaskIds))
            /\ last' = Ran("deleteConnection", targetTaskId, sourceTaskId,
                           <<Call("onUpdateTaskConnections", sourceTask.id, NoPos, newNextTaskIds, "")>>)
            /\ UNCHANGED <<usedIds, userRole, gestureVars, connectors, dropTimers, sessionVars>>
    ELSE Ignored("deleteConnection", targetTaskId, sourceTaskId)

\* ------------------------------------------------- card and toolbar wiring

\* The removal wired without the canEdit test.
RemoveTaskUngated(taskId) ==
    /\ Committed(removeNode(tasks, taskId))
    /\ last' = Ran("removeTask", taskId, NoId, <<Call("onRemoveTask", taskId, NoPos, <<>>, "")>>)
    /\ UNCHANGED <<usedIds, userRole, gestureVars, connectors, dropTimers, sessionVars>>

\* onRemoveTask={canEdit ? onRemoveTask : () => {}}
RemoveTask(taskId) ==
    IF ~canEdit THEN Ignored("removeTask", taskId, NoId)
    ELSE /\ Committed(removeNode(tasks, taskId))
         /\ last' = Ran("removeTask", taskId, NoId, <<Call("onRemoveTask", taskId, NoPos, <<>>, "")>>)
         /\ UNCHANGED <<usedIds, userRole, gestureVars, connectors, dropTimers, sessionVars>>

\* onUpdateStatus={canEdit ? onUpdateTaskStatus : () => {}}; a status change
\* is not one of the mutations the history records.
UpdateStatus(taskId, st) ==
    IF ~canEdit THEN Ignored("updateStatus", taskId, NoId)
    ELSE /\ tasks' = updateNodeStatus(tasks, taskId, st)
         /\ Rerendered(tasks')
         /\ last' = Ran("updateStatus", taskId, NoId, <<Call("onUpdateTaskStatus", taskId, NoPos, <<>>, st)>>)
         /\ UNCHANGED <<usedIds, undoStack, redoStack, historyLimit, timeline, head, userRole, gestureVars,
                      connectors, dropTimers, sessionVars>>

\* The add, auto-layout, undo and redo buttons are rendered only under canEdit.
AddTask ==
    /\ canEdit
    /\ Cardinality(usedIds) < Len(IdSeq)
    /\ LET id == IdSeq[Cardinality(usedIds) + 1]
       IN /\ Committed(addNode(tasks, id))
          /\ usedIds' = usedIds \cup {id}
          /\ last' = Ran("addTask", id, NoId, <<Call("onAddTask", id, NoPos, <<>>, "")>>)
    /\ UNCHANGED <<userRole, gestureVars, connectors, dropTimers, sessionVars>>

AutoLayout ==
    /\ canEdit
    /\ Committed(autoLayout(tasks))
    /\ last' = Ran("autoLayout", NoId, NoId, <<Call("onAutoLayout", NoId, NoPos, <<>>, "")>>)
    /\ UNCHANGED <<usedIds, userRole, gestureVars, connectors, dropTimers, sessionVars>>

\* The graph with its two stacks, as the history operations take it.
History == [tasks |-> tasks, undoStack |-> undoStack, redoStack |-> redoStack]

\* The undo button: disabled={!canUndo}
Undo ==
    /\ canEdit
    /\ canUndo
    /\ tasks' = undo(History).tasks
    /\ undoStack' = undo(History).undoStack
    /\ redoStack' = undo(History).redoStack
    /\ Rerendered(tasks')
    /\ head' = head - 1
    /\ last' = Ran("undo", NoId, NoId, <<Call("onUndo", NoId, NoPos, <<>>, "")>>)
    /\ UNCHANGED <<usedIds, historyLimit, timeline, userRole, gestureVars, connectors, dropTimers, sessionVars>>

\* The redo button: disabled={!canRedo}
Redo ==
    /\ canEdit
    /\ canRedo
    /\ tasks' = redo(History).tasks
    /\ undoStack' = redo(History).undoStack
    /\ redoStack' = redo(History).redoStack
    /\ Rerendered(tasks')
    /\ head' = head + 1
    /\ last' = Ran("redo", NoId, NoId, <<Call("onRedo", NoId, NoPos, <<>>, "")>>)
    /\ UNCHANGED <<usedIds, historyLimit, timeline, userRole, gestureVars, connectors, dropTimers, sessionVars>>

\* undo() and redo() called on the history by any caller, whatever the
\* stacks hold (the buttons are callers that are disabled on an empty stack).
\* A call that changes nothing renders nothing.
undoCalled ==
    /\ tasks' = undo(History).tasks
    /\ undoStack' = undo(History).undoStack
    /\ redoStack' = undo(History).redoStack
    /\ head' = IF undoStack = <<>> THEN head ELSE head - 1
    /\ IF undoStack = <<>> THEN UNCHANGED <<mounted, debounce>> ELSE Rerendered(tasks')
    /\ last' = Ran("undo()", NoId, NoId, <<>>)
    /\ UNCHANGED <<usedIds, historyLimit, timeline, userRole, gestureVars, connectors, dropTimers, sessionVars>>

redoCalled ==
    /\ tasks' = redo(History).tasks
    /\ undoStack' = redo(History).undoStack
    /\ redoStack' = redo(History).redoStack
    /\ head' = IF redoStack = <<>> THEN head ELSE head + 1
    /\ IF redoStack = <<>> THEN UNCHANGED <<mounted, debounce>> ELSE Rerendered(tasks')
    /\ last' = Ran("redo()", NoId, NoId, <<>>)
    /\ UNCHANGED <<usedIds, historyLimit, timeline, userRole, gestureVars, connectors, dropTimers, sessionVars>>

\* ------------------------------------------------------------------- role

\* setUserRole(role || 'viewer') with the role getUserRole resolved (null:
\* no user, no membership row, or a query error).
resolvedRole(role) == IF role = NoId THEN "viewer" ELSE role

\* getUserRole resolves; the effect goes on to fetch the project.
loadUserRole(role) ==
    /\ currentProjectId # NoId
    /\ userRole' = resolvedRole(role)
    /\ pending' = pending \cup {InFlight("getProject", currentProjectId)}
    /\ last' = Ran("loadUserRole", NoId, NoId, <<>>)
    /\ UNCHANGED <<storeVars, gestureVars, geomVars, currentProjectId, channels, alive, db, rpc, acceptModal,
                   isSaving, isPublic, isMembersModalOpen, isInviting, modalError>>

\* ------------------------------------------------------ geometry recompute

\* The [tasks] effect gives every task a ref and the next commit attaches
\* them; calculateConnectors changes identity, which re-arms the timer.
taskCardRefsEffect ==
    /\ mounted # TaskIds(tasks)
    /\ mounted' = TaskIds(tasks)
    /\ debounce' = TRUE
    /\ last' = Ran("taskCardRefs", NoId, NoId, <<>>)
    /\ UNCHANGED <<storeVars, userRole, gestureVars, connectors, dropTimers, sessionVars>>

\* The 50 ms timer fires. It was armed after every pending drop timer, which
\* has no delay, so it fires after them.
debounceFires(rect) ==
    /\ debounce
    /\ dropTimers = {}
    /\ connectors' = calculateConnectors(tasks, mounted, rect)
    /\ debounce' = FALSE
    /\ last' = Ran("recompute", NoId, NoId, <<>>)
    /\ UNCHANGED <<storeVars, userRole, gestureVars, mounted, dropTimers, sessionVars>>

\* setTimeout(calculateConnectors, 0) of a drop fires: its closure holds the
\* task list of the render the drop handler belonged to.
dropTimerFires(closure, rect) ==
    /\ closure \in dropTimers
    /\ connectors' = calculateConnectors(closure, mounted, rect)
    /\ dropTimers' = dropTimers \ {closure}
    /\ last' = Ran("recompute", NoId, NoId, <<>>)
    /\ UNCHANGED <<storeVars, userRole, gestureVars, mounted, debounce, sessionVars>>

\* A window resize or a mutation observed on the container.
observerRecompute(rect) ==
    /\ connectors' = calculateConnectors(tasks, mounted, rect)
    /\ last' = Ran("recompute", NoId, NoId, <<>>)
    /\ UNCHANGED <<storeVars, userRole, gestureVars, mounted, debounce, dropTimers, sessionVars>>

\* ------------------------------------------------- role and project fetch

\* A message put before the user (alert) or written to the console.
Alert(msg) == Call("alert", NoId, NoPos, <<>>, msg)
ConsoleError(msg) == Call("console.error", NoId, NoPos, <<>>, msg)

\* How an awaited call settled, recorded as the source of the continuation.
Outcome(ok) == IF ok THEN "resolved" ELSE "rejected"

\* getUserRole rejects (supabase.auth.getUser throws): the catch of the
\* effect logs it and nothing else.
loadUserRoleThrows ==
    /\ currentProjectId # NoId
    /\ last' = Ran("loadUserRole", NoId, Outcome(FALSE), <<ConsoleError("roleFetchFailed")>>)
    /\ UNCHANGED <<storeVars, userRole, gestureVars, geomVars, sessionVars>>

\* getProject of the role effect settles: setIsPublic(project.isPublic), or
\* the catch of the effect logs the failure. The resolution is not tied to
\* the project that is current by then.
loadProjectSettles(call, ok, visibility) ==
    /\ call \in pending
    /\ call.op = "getProject"
    /\ pending' = pending \ {call}
    /\ isPublic' = IF ok THEN visibility ELSE isPublic
    /\ last' = Ran("loadProject", call.project, Outcome(ok),
                   IF ok THEN <<>> ELSE <<ConsoleError("roleFetchFailed")>>)
    /\ UNCHANGED <<storeVars, userRole, gestureVars, geomVars, currentProjectId, channels,
                   alive, db, rpc, acceptModal, isSaving, isMembersModalOpen, isInviting, modalError>>

\* ----------------------------------------------------- change subscription

ProjectIds == {"p1", "p2"}

\* What a channel delivers: changes of the project's row and of its member
\* rows.
Notifications ==
    ({"projects"} \X {"UPDATE", "DELETE"}) \cup
    ({"project_members"} \X {"INSERT", "UPDATE", "DELETE"})

\* A cleanup that lets the subscription be.
unsubscribeNothing(chs, projectId) == chs

\* The cleanup of the effect run for projectId: subscription.unsubscribe().
\* The run for no project returned before subscribing and has no cleanup.
unsubscribe(chs, projectId) == SelectSeq(chs, LAMBDA c : c.name # projectId)

\* The body of the subscription effect for projectId.
subscribe(chs, projectId) ==
    IF projectId = NoId THEN chs ELSE Append(chs, subscribeToProjectUpdates(projectId))

\* The calls whose continuations belong to the members modal.
ModalCalls == {"loadData", "inviteToProject", "inviteLoadData"}

\* props.currentProjectId changes: the cleanup of the previous run, then the
\* effect for the new id; the role effect starts a lookup (loadUserRole is
\* its resolution). The parent keeps handing the same tasks. The members
\* modal is rendered under isMembersModalOpen && currentProjectId: with no
\* project it unmounts, with another one its [isOpen, projectId] effect calls
\* loadData.
currentProjectIdChangesStarting(projectId, started) ==
    /\ projectId # currentProjectId
    /\ currentProjectId' = projectId
    /\ channels' = subscribe(unsubscribe(channels, currentProjectId), projectId)
    /\ IF ~isMembersModalOpen
       THEN /\ pending' = pending \cup started
            /\ UNCHANGED <<isInviting, modalError>>
       ELSE IF projectId = NoId
       THEN /\ isInviting' = FALSE
            /\ modalError' = NoId
            /\ pending' = {c \in pending : c.op \notin ModalCalls} \cup started
       ELSE /\ modalError' = NoId
            /\ pending' = pending \cup {InFlight("loadData", projectId)} \cup started
            /\ UNCHANGED isInviting
    /\ last' = Ran("currentProjectId", projectId, currentProjectId, <<>>)
    /\ UNCHANGED <<storeVars, userRole, gestureVars, geomVars, alive, db, rpc, acceptModal, isSaving, isPublic,
                   isMembersModalOpen>>

\* The same where the role lookup is accounted for by loadUserRole.
currentProjectIdChanges(projectId) == currentProjectIdChangesStarting(projectId, {})

\* What the role effect starts for projectId: nothing without a project.
roleLookup(projectId) ==
    IF projectId = NoId THEN {} ELSE {InFlight("getUserRole", projectId)}

\* The role the project_members table holds for the signed-in user, and the
\* public flag of the project's row.
MemberRole(projectId) == IF projectId = "p1" THEN "owner" ELSE "editor"
ProjectPublic(projectId) == projectId = "p1"

\* How a role lookup ended: thrown, null or with the role of a row.
Resolution(ok, role) == IF ~ok THEN "rejected" ELSE IF role = NoId THEN "null" ELSE "resolved"

\* The getUserRole started by the effect run for call.project settles,
\* whatever project is current by now: with the role of the member row, with
\* null, or (ok false) by throwing into the catch of the effect. On a
\* resolution the same run goes on to getProject(call.project).
getUserRoleSettles(call, ok, role) ==
    /\ call \in pending
    /\ call.op = "getUserRole"
    /\ userRole' = IF ok THEN resolvedRole(role) ELSE userRole
    /\ pending' = (pending \ {call}) \cup
                      (IF ok THEN {InFlight("getProject", call.project)} ELSE {})
    /\ last' = Ran("getUserRole", call.project, Resolution(ok, role),
                   IF ok THEN <<>> ELSE <<ConsoleError("roleFetchFailed")>>)
    /\ UNCHANGED <<storeVars, gestureVars, geomVars, currentProjectId, channels, alive, db, rpc, acceptModal,
                   isSaving, isPublic, isMembersModalOpen, isInviting, modalError>>

\* The component unmounts: the cleanup of the last run.
unmount ==
    /\ alive
    /\ alive' = FALSE
    /\ channels' = unsubscribe(channels, currentProjectId)
    /\ last' = Ran("unmount", NoId, currentProjectId, <<>>)
    /\ UNCHANGED <<storeVars, userRole, gestureVars, geomVars, currentProjectId, isSaving,
                   isPublic, isMembersModalOpen, isInviting, modalError, pending, db, rpc,
                   acceptModal>>

\* What the server may hold of the project when the page is loaded again.
ServerTasks == {ts \in InitTasks : Len(ts) = 2 /\ ts[1].position.set}

\* window.location.reload(): the page and everything in flight is dropped and
\* the application starts again on the project, with the tasks the server
\* holds and an empty history.
Reloaded(ts) ==
    /\ tasks' = ts
    /\ usedIds' = TaskIds(ts)
    /\ userRole' = "viewer"
    /\ connectingState' = NoConn
    /\ draggedTaskId' = NoId
    /\ dragOffset' = NoOffset
    /\ grab' = NoGrab
    /\ undoStack' = <<>>
    /\ redoStack' = <<>>
    /\ mounted' = {}
    /\ connectors' = <<>>
    /\ debounce' = TRUE
    /\ dropTimers' = {}
    /\ timeline' = <<GraphOf(ts)>>
    /\ head' = 1
    /\ channels' = <<subscribeToProjectUpdates(currentProjectId)>>
    /\ isSaving' = FALSE
    /\ isPublic' = FALSE
    /\ isMembersModalOpen' = FALSE
    /\ isInviting' = FALSE
    /\ modalError' = NoId
    /\ pending' = {}
    /\ UNCHANGED <<historyLimit, currentProjectId, alive, db, rpc, acceptModal>>

\* A callback that never reloads.
reloadsNever(table, eventType) == FALSE

\* payload.table === 'projects' && payload.eventType === 'UPDATE'
reloads(table, eventType) == table = "projects" /\ eventType = "UPDATE"

\* An open channel delivers a change to the callback of the subscription
\* effect. origin tells whose change it was: this client's own update of the
\* project row is on its way back to it, another client's may come any time.
\* The payload's table and event are recorded as the id and the source.
onUpdate(table, eventType, origin) ==
    \E i \in DOMAIN channels :
        /\ table \in channels[i].tables
        /\ origin = "self" =>
               /\ reloads(table, eventType)
               /\ InFlight("ownUpdate", channels[i].name) \in pending
        /\ IF reloads(table, eventType)
           THEN /\ \E ts \in ServerTasks : Reloaded(ts)
                /\ last' = Ran(IF origin = "self" THEN "onOwnUpdate" ELSE "onRemoteUpdate",
                               table, eventType,
                               <<Call("window.location.reload", NoId, NoPos, <<>>, "")>>)
           ELSE /\ last' = Ran("onRemoteUpdate", table, eventType, <<>>)
                /\ UNCHANGED <<storeVars, userRole, gestureVars, geomVars, sessionVars>>

\* ------------------------------------------------------ save and visibility

\* What the title prompt returns: a title, or nothing (cancelled or empty).
Titles == {"title", NoId}

\* A save that asks for no permission.
saveDeniedNever == FALSE

\* if (!canEdit) { alert(...); return; }
saveDenied == ~canEdit

\* The save handler up to its first await. title is what the prompt returns
\* when no project is open.
handleSaveProject(title) ==
    IF saveDenied
    THEN /\ last' = Ran("saveProject", NoId, NoId, <<Alert("noPermission")>>)
         /\ UNCHANGED <<storeVars, userRole, gestureVars, geomVars, sessionVars>>
    ELSE IF currentProjectId = NoId /\ title = NoId
    THEN Ignored("saveProject", NoId, NoId)
    ELSE LET fn == IF currentProjectId = NoId THEN "createProject" ELSE "onSaveProject"
         IN /\ isSaving' = TRUE
            /\ pending' = pending \cup {InFlight(fn, currentProjectId)}
            /\ last' = Ran("saveProject", NoId, NoId, <<Call(fn, title, NoPos, <<>>, "")>>)
            /\ UNCHANGED <<storeVars, userRole, gestureVars, geomVars, currentProjectId,
                           channels, alive, db, rpc, acceptModal, isPublic, isMembersModalOpen, isInviting,
                           modalError>>

\* finally { setIsSaving(false) }
savingAfter(ok) == FALSE

\* The save settles: the alert of the try or of the catch, then the finally.
saveSettles(call, ok) ==
    /\ call \in pending
    /\ call.op \in {"createProject", "onSaveProject"}
    /\ pending' = pending \ {call}
    /\ isSaving' = savingAfter(ok)
    /\ last' = Ran("saveSettled", call.project, Outcome(ok),
                   <<Alert(IF ok THEN "saved" ELSE "saveFailed")>>)
    /\ UNCHANGED <<storeVars, userRole, gestureVars, geomVars, currentProjectId, channels,
                   alive, db, rpc, acceptModal, isPublic, isMembersModalOpen, isInviting, modalError>>

\* if (!canManage || !currentProjectId) return; then toggleProjectVisibility
\* is awaited.
handleToggleVisibility ==
    IF ~canManage \/ currentProjectId = NoId
    THEN Ignored("toggleVisibility", NoId, NoId)
    ELSE /\ pending' = pending \cup {InFlight("toggleProjectVisibility", currentProjectId)}
         /\ last' = Ran("toggleVisibility", NoId, NoId,
                        <<Call("toggleProjectVisibility", currentProjectId, NoPos, <<>>, "")>>)
         /\ UNCHANGED <<storeVars, userRole, gestureVars, geomVars, currentProjectId,
                        channels, alive, db, rpc, acceptModal, isSaving, isPublic, isMembersModalOpen, isInviting,
                        modalError>>

\* toggleProjectVisibility settles. It read the row and wrote the opposite
\* flag, so on success the row was updated and the channel of that project
\* will say so; on failure the catch alerts.
toggleSettles(call, ok, newVisibility) ==
    /\ call \in pending
    /\ call.op = "toggleProjectVisibility"
    /\ pending' = (pending \ {call}) \cup
                  (IF ok THEN {InFlight("ownUpdate", call.project)} ELSE {})
    /\ isPublic' = IF ok THEN newVisibility ELSE isPublic
    /\ last' = Ran("toggleSettled", call.project, Outcome(ok),
                   <<Alert(IF ok THEN "visibilityChanged" ELSE "toggleFailed")>>)
    /\ UNCHANGED <<storeVars, userRole, gestureVars, geomVars, currentProjectId, channels,
                   alive, db, rpc, acceptModal, isSaving, isMembersModalOpen, isInviting, modalError>>

\* ------------------------------------------------------------ members modal

\* The calls of loadData: the invitations are fetched by managers only.
loadDataCalls ==
    <<Call("getProjectMembers", currentProjectId, NoPos, <<>>, "")>> \o
    (IF canManageMembers
     THEN <<Call("getProjectInvitations", currentProjectId, NoPos, <<>>, "")>>
     ELSE <<>>)

\* The members button, rendered under canManage && currentProjectId. The
\* modal mounts and its [isOpen, projectId] effect calls loadData, which
\* clears the error.
openMembersModal ==
    /\ canManage
    /\ currentProjectId # NoId
    /\ ~isMembersModalOpen
    /\ isMembersModalOpen' = TRUE
    /\ modalError' = NoId
    /\ pending' = pending \cup {InFlight("loadData", currentProjectId)}
    /\ last' = Ran("openMembersModal", NoId, NoId, loadDataCalls)
    /\ UNCHANGED <<storeVars, userRole, gestureVars, geomVars, currentProjectId, channels,
                   alive, db, rpc, acceptModal, isSaving, isPublic, isInviting>>

\* onClose: the modal unmounts and its state and continuations go with it.
closeMembersModal ==
    /\ isMembersModalOpen
    /\ isMembersModalOpen' = FALSE
    /\ isInviting' = FALSE
    /\ modalError' = NoId
    /\ pending' = {c \in pending : c.op \notin ModalCalls}
    /\ last' = Ran("closeMembersModal", NoId, NoId, <<>>)
    /\ UNCHANGED <<storeVars, userRole, gestureVars, geomVars, currentProjectId, channels,
                   alive, db, rpc, acceptModal, isSaving, isPublic>>

\* loadData settles: the lists are shown, or the catch sets the error.
loadDataSettles(call, ok) ==
    /\ call \in pending
    /\ call.op = "loadData"
    /\ pending' = pending \ {call}
    /\ modalError' = IF ok THEN modalError ELSE "loadFailed"
    /\ last' = Ran("loadDataSettled", call.project, Outcome(ok), <<>>)
    /\ UNCHANGED <<storeVars, userRole, gestureVars, geomVars, currentProjectId, channels,
                   alive, db, rpc, acceptModal, isSaving, isPublic, isMembersModalOpen, isInviting>>

\* What the invite form holds: an address, or blanks.
Emails == {"a@b", ""}

\* if (!inviteEmail.trim()) return; setIsInviting(true); then inviteToProject
\* is awaited. The invite button is disabled while isInviting.
handleInvite(inviteEmail) ==
    /\ isMembersModalOpen
    /\ currentProjectId # NoId
    /\ canManageMembers
    /\ ~isInviting
    /\ IF inviteEmail = ""
       THEN Ignored("invite", NoId, NoId)
       ELSE /\ isInviting' = TRUE
            /\ pending' = pending \cup {InFlight("inviteToProject", currentProjectId)}
            /\ last' = Ran("invite", NoId, NoId,
                           <<Call("inviteToProject", currentProjectId, NoPos, <<>>, "")>>)
            /\ UNCHANGED <<storeVars, userRole, gestureVars, geomVars, currentProjectId,
                           channels, alive, db, rpc, acceptModal, isSaving, isPublic, isMembersModalOpen,
                           modalError>>

\* inviteToProject settles. On success the handler awaits loadData inside its
\* try, so the finally waits for it; on failure the catch sets the error and
\* the finally resets the flag.
inviteSettles(call, ok) ==
    /\ call \in pending
    /\ call.op = "inviteToProject"
    /\ pending' = (pending \ {call}) \cup
                  (IF ok THEN {InFlight("inviteLoadData", call.project)} ELSE {})
    /\ isInviting' = ok
    /\ modalError' = IF ok THEN NoId ELSE "inviteFailed"
    /\ last' = Ran("inviteSettled", call.project, Outcome(ok), IF ok THEN loadDataCalls ELSE <<>>)
    /\ UNCHANGED <<storeVars, userRole, gestureVars, geomVars, currentProjectId, channels,
                   alive, db, rpc, acceptModal, isSaving, isPublic, isMembersModalOpen>>

\* The loadData awaited by handleInvite settles (it catches its own failure),
\* and the finally of handleInvite resets the flag.
inviteLoadDataSettles(call, ok) ==
    /\ call \in pending
    /\ call.op = "inviteLoadData"
    /\ pending' = pending \ {call}
    /\ isInviting' = FALSE
    /\ modalError' = IF ok THEN modalError ELSE "loadFailed"
    /\ last' = Ran("inviteLoadDataSettled", call.project, Outcome(ok), <<>>)
    /\ UNCHANGED <<storeVars, userRole, gestureVars, geomVars, currentProjectId, channels,
                   alive, db, rpc, acceptModal, isSaving, isPublic, isMembersModalOpen>>

\* ----------------------------------------------------------- specification

Rects == [Ids -> CardRects]

\* The connect gesture; the anchor is taken at one pointer position.
ConnectGestures ==
    \/ \E id \in TaskIds(tasks) : handleStartConnection(id, Grid, Grid, 0, 0, 0, 0)
    \/ \E id \in TaskIds(tasks) : handleEndConnection(id)
    \/ handleMouseUp

\* The delete affordance of each rendered connector.
DeleteGesture ==
    \E i \in DOMAIN connectors :
        handleDeleteConnection(connectors[i].sourceId, connectors[i].targetId)

\* The same once the connectors have caught up with the graph and every
\* card is mounted: one affordance per edge.
SettledDeleteGesture ==
    \E e \in Edges(tasks) : handleDeleteConnection(e[1], e[2])

\* The move gesture with the pointer, the container and the card measured
\* at one place: the card is grabbed and dropped where it lies.
MoveInPlace ==
    \/ \E id \in TaskIds(tasks) : handleDragCardStart(id, 0, 0, 0, 0)
    \/ handleDrop(0, 0, 0, 0, 1380, 1280, 380, 280)

\* The move gesture over the pointer grid and every measured extent.
MoveGestures ==
    \/ \E id \in TaskIds(tasks), cx, cy \in ClientCoords : handleDragCardStart(id, cx, cy, 0, 0)
    \/ handleDragOver
    \/ \E cx, cy \in ClientCoords, sw \in ScrollWidths, sh \in ScrollHeights,
          ow \in CardWidths, oh \in CardHeights :
          handleDrop(cx, cy, 0, 0, sw, sh, ow, oh)

NodeButtons ==
    \/ \E id \in TaskIds(tasks) : RemoveTask(id)
    \/ AddTask

StatusButtons == \E id \in TaskIds(tasks), st \in Statuses : UpdateStatus(id, st)

RoleLoads == \E role \in Roles \cup {NoId} : loadUserRole(role)

DropTimers == \E closure \in dropTimers, rect \in Rects : dropTimerFires(closure, rect)

Recomputes ==
    \/ taskCardRefsEffect
    \/ \E rect \in Rects : debounceFires(rect)
    \/ \E rect \in Rects : observerRecompute(rect)
    \/ DropTimers

\* Spec: the graph gestures (connect, delete edge, add, remove) under every
\* role, from a freshly loaded project. Geometry is not recomputed here, so
\* the delete affordances are those of the settled canvas.
Init == \E ts \in InitTasks : InitWith(ts, "viewer", 0)

Next ==
    \/ ConnectGestures
    \/ SettledDeleteGesture
    \/ NodeButtons
    \/ RoleLoads

Spec == Init /\ [][Next]_vars

\* Two tasks at the origin, the first pointing to the second.
PairTasks == {ts \in InitTasks : Len(ts) = 2 /\ ts[1].nextTaskIds # <<>> /\ ts[1].position.set}

\* MoveSpec: the move gesture over the pointer grid, with the cards mounted
\* or not, under a role that may or may not edit.
SmallTasks == {ts \in InitTasks : Len(ts) = 1 /\ \A i \in DOMAIN ts : ts[i].nextTaskIds = <<>>}

MoveInit == \E ts \in SmallTasks : InitWith(ts, "viewer", 0)

MoveNext ==
    \/ MoveGestures
    \/ \E role \in {"editor", "viewer"} : loadUserRole(role)
    \/ taskCardRefsEffect
    \/ DropTimers

MoveSpec == MoveInit /\ [][MoveNext]_vars

\* GateSpec: every gesture the canvas offers, with the role changing between
\* an editing and a non-editing one while gestures are under way.
GateInit == \E ts \in PairTasks : InitWith(ts, "viewer", 0)

GateNext ==
    \/ ConnectGestures
    \/ SettledDeleteGesture
    \/ MoveInPlace
    \/ handleDragOver
    \/ DropTimers
    \/ \E id \in TaskIds(tasks) : RemoveTask(id)
    \/ StatusButtons
    \/ \E role \in {"editor", "viewer"} : loadUserRole(role)

GateSpec == GateInit /\ [][GateNext]_vars

\* GeomSpec: the graph gestures of an editor together with every recompute
\* trigger, in any interleaving.
GeomInit == \E ts \in PairTasks : InitWith(ts, "editor", 0)

GeomNext ==
    \/ ConnectGestures
    \/ DeleteGesture
    \/ MoveInPlace
    \/ \E id \in TaskIds(tasks) : RemoveTask(id)
    \/ Recomputes

GeomSpec == GeomInit /\ [][GeomNext]_vars

\* HistSpec: an editor's committed mutations with the history on, and undo
\* and redo; commits are held back once the history holds MaxHistory entries.
HistInit == \E ts \in PairTasks : InitWith(ts, "editor", MaxHistory)

HistNext ==
    \/ HistoryRoom /\ ConnectGestures
    \/ HistoryRoom /\ SettledDeleteGesture
    \/ HistoryRoom /\ MoveInPlace
    \/ HistoryRoom /\ NodeButtons
    \/ HistoryRoom /\ AutoLayout
    \/ DropTimers
    \/ Undo
    \/ Redo

HistSpec == HistInit /\ [][HistNext]_vars

\* SubSpec: the change subscription over a client's session: the project is
\* switched and closed, the component unmounts, the open channel delivers
\* changes of other clients and of this one (a manager toggling the
\* visibility), and the graph is edited locally by removing tasks.
SubInit == \E ts \in PairTasks : InitWith(ts, "viewer", 0)

SubNext ==
    /\ alive
    /\ \/ \E projectId \in ProjectIds \cup {NoId} : currentProjectIdChanges(projectId)
       \/ unmount
       \/ \E n \in Notifications, origin \in {"self", "other"} : onUpdate(n[1], n[2], origin)
       \/ \E role \in {"owner", NoId} : loadUserRole(role)
       \/ handleToggleVisibility
       \/ \E call \in pending : toggleSettles(call, TRUE, ~isPublic)
       \/ openMembersModal
       \/ closeMembersModal
       \/ \E id \in TaskIds(tasks) : RemoveTask(id)

SubSpec == SubInit /\ [][SubNext]_vars

\* CallSpec: the collaborator calls of a session, each succeeding or failing:
\* the role and project fetch, the save of an open and of a new project, the
\* visibility toggle, and the members modal with its invitations.
CallInit == \E ts \in PairTasks : InitWith(ts, "viewer", 0)

CallRoles == {"owner", "editor", NoId}

CallNext ==
    \/ \E projectId \in {"p1", NoId} : currentProjectIdChanges(projectId)
    \/ \E role \in CallRoles : loadUserRole(role)
    \/ loadUserRoleThrows
    \/ \E call \in pending, ok, visibility \in BOOLEAN : loadProjectSettles(call, ok, visibility)
    \/ ~isSaving /\ \E title \in Titles : handleSaveProject(title)
    \/ \E call \in pending, ok \in BOOLEAN : saveSettles(call, ok)
    \/ handleToggleVisibility
    \/ \E call \in pending, ok \in BOOLEAN : toggleSettles(call, ok, ~isPublic)
    \/ openMembersModal
    \/ closeMembersModal
    \/ \E call \in pending, ok \in BOOLEAN : loadDataSettles(call, ok)
    \/ \E inviteEmail \in Emails : handleInvite(inviteEmail)
    \/ \E call \in pending, ok \in BOOLEAN : inviteSettles(call, ok)
    \/ \E call \in pending, ok \in BOOLEAN : inviteLoadDataSettles(call, ok)

CallSpec == CallInit /\ [][CallNext]_vars

\* One task at the origin.
LoneTask == {ts \in SmallTasks : ts[1].position.set}

\* LifoSpec: an editor moves one card about the pointer grid, MaxMoves times
\* at most before taking moves back, and undo() and redo() are called on the
\* history by the buttons and by callers that do not ask canUndo or canRedo.
LifoInit == \E ts \in LoneTask : InitWith(ts, "editor", MaxMoves)

LifoNext ==
    \/ \E id \in TaskIds(tasks) : handleDragCardStart(id, 0, 0, 0, 0)
    \/ HistoryRoom /\ \E cx, cy \in ClientCoords : handleDrop(cx, cy, 0, 0, 1380, 1280, 380, 280)
    \/ DropTimers
    \/ Undo
    \/ Redo
    \/ undoCalled
    \/ redoCalled

LifoSpec == LifoInit /\ [][LifoNext]_vars

\* SaveSpec: the graph is edited (move, connect, disconnect, add, remove,
\* undo, redo) by a user whose role is resolved as owner or as viewer,
\* and the project, open or new, is saved and its visibility toggled. The
\* history keeps one entry.
SaveInit == \E ts \in PairTasks : InitWith(ts, "viewer", 1)

SaveNext ==
    \/ HistoryRoom /\ ConnectGestures
    \/ HistoryRoom /\ SettledDeleteGesture
    \/ HistoryRoom /\ MoveInPlace
    \/ HistoryRoom /\ NodeButtons
    \/ DropTimers
    \/ Undo
    \/ Redo
    \/ \E role \in {"owner", NoId} : loadUserRole(role)
    \/ \E projectId \in {"p1", NoId} : currentProjectIdChanges(projectId)
    \/ ~isSaving /\ \E title \in Titles : handleSaveProject(title)
    \/ \E call \in pending : saveSettles(call, TRUE)
    \/ handleToggleVisibility
    \/ \E call \in pending : toggleSettles(call, TRUE, ~isPublic)

SaveSpec == SaveInit /\ [][SaveNext]_vars

\* MountSpec: an editor adds a task and draws edges while the recompute
\* triggers fire, so that recomputes run with the new card not yet mounted.
MountInit == \E ts \in PairTasks : InitWith(ts, "editor", 0)

MountNext ==
    \/ AddTask
    \/ ConnectGestures
    \/ taskCardRefsEffect
    \/ \E rect \in Rects : debounceFires(rect)
    \/ \E rect \in Rects : observerRecompute(rect)

MountSpec == MountInit /\ [][MountNext]_vars

\* SettleSpec: an editor moves the two connected cards about the pointer
\* grid while the recompute timers and triggers fire in every order the
\* timers allow.
SettleInit == \E ts \in PairTasks : InitWith(ts, "editor", 0)

SettleNext ==
    \/ \E id \in TaskIds(tasks) : handleDragCardStart(id, 0, 0, 0, 0)
    \/ \E cx, cy \in ClientCoords : handleDrop(cx, cy, 0, 0, 1380, 1280, 380, 280)
    \/ Recomputes

SettleSpec == SettleInit /\ [][SettleNext]_vars

\* ------------------------------------------------------------------ server

\* What the server actions leave alone on the client.
clientVars == <<storeVars, gestureVars, geomVars, currentProjectId, channels, alive, isSaving,
                isPublic, isMembersModalOpen, isInviting, modalError, pending>>

\* project_members.role of the user's row (NoId: no row).
RoleIn(d, user) == d.members[user]

\* USING of "Project owners and admins can manage members" and of "Project
\* owners and admins can manage invitations", both FOR ALL.
managesMembers(d, user) == RoleIn(d, user) \in {"owner", "admin"}

\* An update policy that lets every member write.
mayUpdateProjectAnyMember(d, user) == RoleIn(d, user) # NoId

\* USING and WITH CHECK of "Project members can update projects based on role".
mayUpdateProject(d, user) == RoleIn(d, user) \in {"owner", "admin", "editor"}

\* USING of "Only project owners can delete projects".
mayDeleteProject(d, user) == RoleIn(d, user) = "owner"

\* The select of getProject and of updateProject joins project_members with
\* !inner: it yields a row only to someone who may see a member row of the
\* project, that is, to a member.
seesProject(d, user) == d.exists /\ RoleIn(d, user) # NoId

\* INSERT INTO project_activity_log (..., user_id, action, ...)
Logged(d, user, action) == [d EXCEPT !.log = Append(@, [user |-> user, action |-> action])]

\* The text of a boolean a call resolved with.
Bool(v) == IF v THEN "true" ELSE "false"

\* toggleProjectVisibility up to its second await: getProject has resolved
\* and the call holds the flag it read, or getProject threw.
toggleReads(user) ==
    /\ db.exists
    /\ rpc.toggles + Cardinality(rpc.calls) < MaxToggles
    /\ [op |-> "toggle", user |-> user, read |-> TRUE] \notin rpc.calls
    /\ [op |-> "toggle", user |-> user, read |-> FALSE] \notin rpc.calls
    /\ IF seesProject(db, user)
       THEN /\ rpc' = [rpc EXCEPT !.calls = @ \cup {[op |-> "toggle", user |-> user,
                                                     read |-> db.isPublic]}]
            /\ last' = Ran("getProject", user, Outcome(TRUE), <<>>)
       ELSE /\ last' = Ran("toggleProjectVisibility", user, Outcome(FALSE), <<>>)
            /\ UNCHANGED rpc
    /\ UNCHANGED <<clientVars, userRole, db, acceptModal>>

\* The rest of it: updateProject(id, {isPublic: !project.isPublic}) writes
\* the negation of what was read, the update trigger logs the change, and the
\* call returns the value it wrote; a row the policy hides from the caller is
\* not updated and .single() makes updateProject throw.
toggleWrites(call) ==
    /\ call \in rpc.calls
    /\ call.op = "toggle"
    /\ IF db.exists /\ mayUpdateProject(db, call.user)
       THEN /\ db' = Logged([db EXCEPT !.isPublic = ~call.read], call.user, "project_updated")
            /\ rpc' = [calls |-> rpc.calls \ {call}, toggles |-> rpc.toggles + 1]
            /\ last' = Ran("toggleProjectVisibility", call.user, Bool(~call.read), <<>>)
       ELSE /\ rpc' = [rpc EXCEPT !.calls = @ \ {call}]
            /\ last' = Ran("toggleProjectVisibility", call.user, Outcome(FALSE), <<>>)
            /\ UNCHANGED db
    /\ UNCHANGED <<clientVars, userRole, acceptModal>>

\* ProjectService.updateProject(id, {isPublic: flag}) called by user,
\* whatever the client shows them: the policy passes the row of an owner,
\* admin or editor, the trigger logs the update; for anyone else no row comes
\* back, .single() reports it and updateProject throws.
updateProject(user, flag) ==
    /\ db.exists
    /\ Len(db.log) < MaxLog
    /\ IF mayUpdateProject(db, user)
       THEN /\ db' = Logged([db EXCEPT !.isPublic = flag], user, "project_updated")
            /\ last' = Ran("updateProject", user, Outcome(TRUE), <<>>)
       ELSE /\ last' = Ran("updateProject", user, Outcome(FALSE), <<>>)
            /\ UNCHANGED db
    /\ UNCHANGED <<clientVars, userRole, rpc, acceptModal>>

\* ProjectService.deleteProject called by user: the policy lets the owner's
\* delete through, and the rows of the other tables go with the project (ON
\* DELETE CASCADE); for anyone else no row matches and nothing is reported.
deleteProject(user) ==
    /\ db.exists
    /\ IF mayDeleteProject(db, user)
       THEN db' = [exists |-> FALSE, isPublic |-> FALSE,
                   members |-> [u \in Users |-> NoId],
                   invitations |-> [email \in UserEmails |-> NoInv],
                   log |-> <<>>]
       ELSE UNCHANGED db
    /\ last' = Ran("deleteProject", user, Outcome(TRUE), <<>>)
    /\ UNCHANGED <<clientVars, userRole, rpc, acceptModal>>

\* The roles project_invitations.role allows.
InviteRoles == {"admin", "editor", "viewer"}

\* An invite whose insert replaces the row the address already has.
inviteToProjectUpsert(user, email, role) ==
    /\ db.exists
    /\ IF ~managesMembers(db, user)
       THEN /\ last' = Ran("inviteToProject", email, "inviteFailed", <<>>)
            /\ UNCHANGED db
       ELSE /\ db' = [db EXCEPT !.invitations[email] =
                          [role |-> role, invitedBy |-> user, accepted |-> FALSE,
                           expired |-> FALSE]]
            /\ last' = Ran("inviteToProject", email,
                           IF db.invitations[email] # NoInv THEN "alreadyInvited"
                           ELSE Outcome(TRUE), <<>>)
    /\ UNCHANGED <<clientVars, userRole, rpc, acceptModal>>

\* CollaborationService.inviteToProject called by user: the insert is
\* checked against the policy first and then against UNIQUE(project_id,
\* email), whose violation (23505) becomes the 'already invited' error.
inviteToProject(user, email, role) ==
    /\ db.exists
    /\ IF ~managesMembers(db, user)
       THEN /\ last' = Ran("inviteToProject", email, "inviteFailed", <<>>)
            /\ UNCHANGED db
       ELSE IF db.invitations[email] # NoInv
       THEN /\ last' = Ran("inviteToProject", email, "alreadyInvited", <<>>)
            /\ UNCHANGED db
       ELSE /\ db' = [db EXCEPT !.invitations[email] =
                          [role |-> role, invitedBy |-> user, accepted |-> FALSE,
                           expired |-> FALSE]]
            /\ last' = Ran("inviteToProject", email, Outcome(TRUE), <<>>)
    /\ UNCHANGED <<clientVars, userRole, rpc, acceptModal>>

\* expires_at of the invitation passes.
expires(email) ==
    /\ db.invitations[email] # NoInv
    /\ ~db.invitations[email].expired
    /\ db' = [db EXCEPT !.invitations[email].expired = TRUE]
    /\ last' = Ran("expires", email, NoId, <<>>)
    /\ UNCHANGED <<clientVars, userRole, rpc, acceptModal>>

\* The tokens a user may type: the token of the invitation of each address
\* (named after the address) and one that no invitation has.
Tokens == UserEmails \cup {"none"}

\* A lookup that does not compare the invitation's address with the caller's.
FoundForAnyone(d, user, token) ==
    /\ token \in UserEmails
    /\ d.invitations[token] # NoInv
    /\ ~d.invitations[token].expired
    /\ ~d.invitations[token].accepted

\* SELECT * INTO invitation_record ... WHERE token = invitation_token AND
\* email = user_email AND expires_at > now() AND accepted_at IS NULL; FOUND
Found(d, user, token) ==
    /\ token \in UserEmails
    /\ d.invitations[token] # NoInv
    /\ token = EmailOf(user)
    /\ ~d.invitations[token].expired
    /\ ~d.invitations[token].accepted

\* The rows after accept_project_invitation(token) called by user: the
\* member row is inserted or, ON CONFLICT (project_id, user_id), its role is
\* overwritten; accepted_at is set and the activity is logged. The function
\* is SECURITY DEFINER, so no policy applies, and it runs as one transaction.
accept_project_invitation(d, user, token) ==
    IF ~Found(d, user, token) THEN d
    ELSE Logged([d EXCEPT !.members[user] = d.invitations[token].role,
                          !.invitations[token].accepted = TRUE],
                user, "member_joined")

\* The jsonb the function returns.
AcceptResult(d, user, token) ==
    IF Found(d, user, token)
    THEN [success |-> TRUE, project_id |-> "p1"]
    ELSE [success |-> FALSE, error |-> "Invalid or expired invitation"]

\* result.field of a JavaScript object: undefined (NoId) for a field the
\* object does not have.
Get(obj, field) == IF field \in DOMAIN obj THEN obj[field] ELSE NoId

\* handleAccept up to its await: if (!token.trim()) return; the submit
\* button is disabled while accepting and the form is gone after a success.
handleAccept(user, token) ==
    /\ ~acceptModal.isAccepting
    /\ ~acceptModal.success
    /\ rpc.calls = {}
    /\ acceptModal' = [acceptModal EXCEPT !.isAccepting = TRUE, !.error = NoId]
    /\ rpc' = [rpc EXCEPT !.calls = @ \cup {[op |-> "accept", user |-> user, token |-> token]}]
    /\ last' = Ran("handleAccept", user, token, <<>>)
    /\ UNCHANGED <<clientVars, userRole, db>>

\* The rpc settles. ok: the function ran and acceptInvitation returns its
\* jsonb as it is; the modal reads result.success and result.projectId, and
\* on success arms the timer that hands the project to onSuccess. Not ok:
\* the rpc failed, acceptInvitation throws and the catch shows the message.
acceptSettles(call, ok) ==
    /\ call \in rpc.calls
    /\ call.op = "accept"
    /\ rpc' = [rpc EXCEPT !.calls = @ \ {call}]
    /\ db' = IF ok /\ db.exists THEN accept_project_invitation(db, call.user, call.token) ELSE db
    /\ LET result == AcceptResult(db, call.user, call.token)
       IN IF ~(ok /\ db.exists)
          THEN /\ acceptModal' = [acceptModal EXCEPT !.isAccepting = FALSE, !.error = "acceptFailed"]
               /\ last' = Ran("acceptInvitation", call.user, Outcome(FALSE), <<>>)
          ELSE /\ acceptModal' =
                      IF Get(result, "success") = TRUE /\ Get(result, "projectId") # NoId
                      THEN [acceptModal EXCEPT !.isAccepting = FALSE, !.success = TRUE,
                                               !.redirect = Get(result, "projectId")]
                      ELSE [acceptModal EXCEPT !.isAccepting = FALSE,
                                               !.error = IF Get(result, "error") # NoId
                                                         THEN Get(result, "error")
                                                         ELSE "acceptFailed"]
               /\ last' = Ran("acceptInvitation", call.user, Bool(result.success), <<>>)
    /\ UNCHANGED <<clientVars, userRole>>

\* The role select of a member row, rendered under canManageMembers &&
\* member.role !== 'owner' for the one who looks at the list: handleRoleChange
\* calls updateMemberRole, and the policy lets a manager's update through.
handleRoleChange(actor, userId, newRole) ==
    /\ db.exists
    /\ managesMembers(db, actor)
    /\ RoleIn(db, userId) \notin {NoId, "owner"}
    /\ RoleIn(db, userId) # newRole
    /\ db' = [db EXCEPT !.members[userId] = newRole]
    /\ last' = Ran("updateMemberRole", userId, actor, <<>>)
    /\ UNCHANGED <<clientVars, userRole, rpc, acceptModal>>

\* The remove button of a member row, rendered under the same condition:
\* handleRemoveMember calls removeMember after the confirm.
handleRemoveMember(actor, userId) ==
    /\ db.exists
    /\ managesMembers(db, actor)
    /\ RoleIn(db, userId) \notin {NoId, "owner"}
    /\ db' = [db EXCEPT !.members[userId] = NoId]
    /\ last' = Ran("removeMember", userId, actor, <<>>)
    /\ UNCHANGED <<clientVars, userRole, rpc, acceptModal>>

\* The component is shown to user and its role lookup resolves with the row
\* the server holds now: setUserRole(role || 'viewer').
getUserRole(user) ==
    /\ db.exists
    /\ userRole' = resolvedRole(RoleIn(db, user))
    /\ last' = Ran("getUserRole", user, Resolution(TRUE, RoleIn(db, user)), <<>>)
    /\ UNCHANGED <<clientVars, db, rpc, acceptModal>>

\* ToggleSpec: the owner and whoever the owner has invited toggle the
\* visibility of the project, each call's read and write apart.
ToggleInit == \E ts \in PairTasks : InitWith(ts, "owner", 0)

ToggleNext ==
    \/ \E user \in Users : toggleReads(user)
    \/ \E call \in rpc.calls : toggleWrites(call)
    \/ \E user \in Users, role \in InviteRoles : inviteToProject(user, EmailOf("bob"), role)
    \/ rpc.toggles = 0 /\ handleAccept("bob", EmailOf("bob"))
    \/ \E call \in rpc.calls : acceptSettles(call, TRUE)

ToggleSpec == ToggleInit /\ [][ToggleNext]_vars

\* MemberSpec: two users, one of them the owner, use the member list and
\* the invitation modal of project p1 in any order.
MemberInit == \E ts \in PairTasks : InitWith(ts, "viewer", 0)

MemberNext ==
    \/ \E user \in Users, email \in UserEmails, role \in InviteRoles :
           inviteToProject(user, email, role)
    \/ \E email \in UserEmails : expires(email)
    \/ \E user \in Users, token \in Tokens : handleAccept(user, token)
    \/ \E call \in rpc.calls, ok \in BOOLEAN : acceptSettles(call, ok)
    \/ \E actor, userId \in Users, newRole \in InviteRoles : handleRoleChange(actor, userId, newRole)
    \/ \E actor, userId \in Users : handleRemoveMember(actor, userId)

MemberSpec == MemberInit /\ [][MemberNext]_vars

\* PolicySpec: the owner gives the other user a role, takes it away or
\* changes it, and both call the project service as they like.
PolicyInit == \E ts \in PairTasks : InitWith(ts, "viewer", 0)

PolicyNext ==
    \/ \E role \in InviteRoles : inviteToProject("ann", EmailOf("bob"), role)
    \/ handleAccept("bob", EmailOf("bob"))
    \/ \E call \in rpc.calls : acceptSettles(call, TRUE)
    \/ \E newRole \in InviteRoles : handleRoleChange("ann", "bob", newRole)
    \/ handleRemoveMember("ann", "bob")
    \/ \E user \in Users : getUserRole(user)
    \/ \E user \in Users, flag \in BOOLEAN : updateProject(user, flag)
    \/ \E user \in Users : deleteProject(user)

PolicySpec == PolicyInit /\ [][PolicyNext]_vars

\* AbandonSpec: an editor drags the two connected cards about the pointer
\* grid; a drag may end with no drop on the canvas, and drops may reach the
\* canvas that no drag of a card preceded.
AbandonInit == \E ts \in PairTasks : InitWith(ts, "editor", 0)

AbandonNext ==
    \/ \E id \in TaskIds(tasks), c \in ClientCoords : handleDragCardStart(id, c, c, 0, 0)
    \/ dragEnds
    \/ \E cx, cy \in ClientCoords : handleDrop(cx, cy, 0, 0, 1380, 1280, 380, 280)
    \/ DropTimers

AbandonSpec == AbandonInit /\ [][AbandonNext]_vars

\* RoleSpec: the user goes from project to project while the role and
\* project fetches of every effect run settle in any order, each with the
\* row of its project, with null or by throwing.
RoleInit == \E ts \in PairTasks : InitStarted(ts, "viewer", 0, roleLookup("p1"))

RoleNext ==
    \/ \E projectId \in ProjectIds \cup {NoId} :
           currentProjectIdChangesStarting(projectId, roleLookup(projectId))
    \/ \E call \in pending, ok \in BOOLEAN :
           \E role \in {MemberRole(call.project), NoId} : getUserRoleSettles(call, ok, role)
    \/ \E call \in pending, ok \in BOOLEAN :
           loadProjectSettles(call, ok, ProjectPublic(call.project))

RoleSpec == RoleInit /\ [][RoleNext]_vars

\* Two tasks, connected one way or the other or not at all, both at the
\* origin or both with no position set.
TwoTasks == {ts \in InitTasks : Len(ts) = 2}

\* Measurements under which the second card is smaller than the others.
MixedRects ==
    {[id \in Ids |-> IF id = "t2" THEN [width |-> 200, height |-> 120]
                                  ELSE [width |-> 380, height |-> 280]]}

\* DrawSpec: an editor moves two cards along the diagonal of the pointer grid and draws
\* edges between them, each drop after the timer of the one before it has
\* fired; the connectors are computed when the timers fire.
DrawInit == \E ts \in TwoTasks : InitWith(ts, "editor", 0)

DrawNext ==
    \/ \E id \in TaskIds(tasks) : handleDragCardStart(id, 0, 0, 0, 0)
    \/ dropTimers = {} /\ \E c \in ClientCoords : handleDrop(c, c, 0, 0, 1380, 1380, 380, 380)
    \/ \E id \in TaskIds(tasks) : handleStartConnection(id, Grid, Grid, 0, 0, 0, 0)
    \/ \E id \in TaskIds(tasks) : handleEndConnection(id)
    \/ taskCardRefsEffect
    \/ \E closure \in dropTimers, rect \in MixedRects : dropTimerFires(closure, rect)
    \/ \E rect \in MixedRects : debounceFires(rect)

DrawSpec == DrawInit /\ [][DrawNext]_vars

\* Four tasks at the origin, the first pointing to the second and the fourth.
FanTasks ==
    {[i \in 1..4 |-> [id |-> <<"t1", "t2", "t3", "t4">>[i], position |-> Pos(0, 0),
                      nextTaskIds |-> IF i = 1 THEN <<"t2", "t4">> ELSE <<>>,
                      status |-> "NotStarted"]]}

\* EdgeSpec: an editor deletes the edges of a fan through the connectors on
\* show, which may lag behind the graph, and draws them again from the first
\* task; the history keeps MaxHistory entries and commits wait for room.
EdgeInit == \E ts \in FanTasks : InitWith(ts, "editor", MaxHistory)

EdgeNext ==
    \/ handleStartConnection("t1", Grid, Grid, 0, 0, 0, 0)
    \/ HistoryRoom /\ \E id \in TaskIds(tasks) : handleEndConnection(id)
    \/ HistoryRoom /\ DeleteGesture
    \/ taskCardRefsEffect
    \/ \E rect \in Rects : debounceFires(rect)
    \/ Undo

EdgeSpec == EdgeInit /\ [][EdgeNext]_vars

\* ----------------------------------------------------------------- claims

\* C1: a connect gesture started on a node and ended on that same node
\* leaves every task's nextTaskIds as it was and issues no callback, under
\* every role and in every graph.
C1_SelfConnectChangesNothing ==
    (last.op = "endConnection" /\ last.from = last.id) =>
        /\ last.calls = <<>>
        /\ tasks = last.before

\* An editor ended a connect gesture on the node it started on.
C1_SelfConnectHappened ==
    canEdit /\ last.op = "endConnection" /\ last.from = last.id

\* C2: no nextTaskIds holds an id twice; and once connect(a, b) has been
\* committed, committing it again yields the same target list of a and the
\* same graph, whether judged by the list the handler would build or by a
\* commit onto an edge that was already there.
C2_ConnectTwiceIsConnectOnce ==
    /\ \A i \in DOMAIN tasks : \A j, k \in DOMAIN tasks[i].nextTaskIds :
          tasks[i].nextTaskIds[j] = tasks[i].nextTaskIds[k] => j = k
    /\ (last.op = "endConnection" /\ last.calls # <<>>) =>
          LET once == FindTask(tasks, last.from).nextTaskIds
              previous == FindTask(last.before, last.from).nextTaskIds
          IN /\ connectTargets(once, last.id) = once
             /\ setNodeConnections(tasks, last.from, connectTargets(once, last.id)) = tasks
             /\ last.id \in Range(previous) => tasks = last.before

\* A connect gesture was committed onto an edge that already existed.
C2_ConnectedTwice ==
    /\ last.op = "endConnection"
    /\ last.calls # <<>>
    /\ last.id \in Range(FindTask(last.before, last.from).nextTaskIds)

\* C3: every id in any task's nextTaskIds is the id of a task of the graph,
\* after any sequence of add, remove, connect and disconnect; and right after
\* a removal the removed id is neither a task nor a target of any task.
C3_NoDanglingEdges ==
    /\ \A i \in DOMAIN tasks : Range(tasks[i].nextTaskIds) \subseteq TaskIds(tasks)
    /\ (last.op = "removeTask" /\ last.calls # <<>>) =>
          /\ ~HasTask(tasks, last.id)
          /\ \A i \in DOMAIN tasks : last.id \notin Range(tasks[i].nextTaskIds)

\* A task that another task pointed to was removed.
C3_RemovedATarget ==
    /\ last.op = "removeTask"
    /\ last.calls # <<>>
    /\ \E i \in DOMAIN last.before :
          last.before[i].id # last.id /\ last.id \in Range(last.before[i].nextTaskIds)

\* C4: at every committed mutation (move, add, remove, connect, disconnect,
\* auto-layout), undo() applied to the state just committed gives back exactly
\* the task list before the mutation, and redo() applied after that undo()
\* gives back exactly the task list after it.
C4_UndoRedoRoundTrip ==
    [][(/\ last'.op \in {"drop", "addTask", "removeTask", "endConnection",
                         "deleteConnection", "autoLayout"}
        /\ last'.calls # <<>>) =>
          LET committed == [tasks |-> tasks', undoStack |-> undoStack', redoStack |-> redoStack']
          IN /\ undo(committed).tasks = tasks
             /\ redo(undo(committed)).tasks = tasks'
             /\ redo(undo(committed)).undoStack = undoStack']_vars

\* A redo brought back a graph that the undo before it had taken away.
C4_UndoneAndRedone ==
    last.op = "redo" /\ tasks # last.before /\ canUndo

\* C5 as stated: every committed drop stores 0 <= x <= scrollableWidth -
\* nodeWidth and 0 <= y <= scrollableHeight - nodeHeight, whatever the pointer,
\* the drag offset and the extents, a node larger than the canvas included.
C5_DropWithinStatedRange ==
    [][\A cx, cy \in ClientCoords, sw \in ScrollWidths, sh \in ScrollHeights,
          ow \in CardWidths, oh \in CardHeights :
          (canEdit /\ draggedTaskId # NoId /\ handleDrop(cx, cy, 0, 0, sw, sh, ow, oh)) =>
              LET stored == FindTask(tasks', draggedTaskId).position
              IN /\ 0 <= stored.x
                 /\ stored.x <= sw - cardExtent(draggedTaskId, ow, DefaultCardWidth)
                 /\ 0 <= stored.y
                 /\ stored.y <= sh - cardExtent(draggedTaskId, oh, DefaultCardHeight)]_vars

\* C5: every committed drop stores 0 <= x <= max(0, scrollableWidth -
\* nodeWidth) and 0 <= y <= max(0, scrollableHeight - nodeHeight): a node
\* larger than the canvas on an axis is stored at 0 on that axis.
C5_DropWithinClampedRange ==
    [][\A cx, cy \in ClientCoords, sw \in ScrollWidths, sh \in ScrollHeights,
          ow \in CardWidths, oh \in CardHeights :
          (canEdit /\ draggedTaskId # NoId /\ handleDrop(cx, cy, 0, 0, sw, sh, ow, oh)) =>
              LET stored == FindTask(tasks', draggedTaskId).position
              IN /\ stored.set
                 /\ 0 <= stored.x
                 /\ stored.x <= Max(0, sw - cardExtent(draggedTaskId, ow, DefaultCardWidth))
                 /\ 0 <= stored.y
                 /\ stored.y <= Max(0, sh - cardExtent(draggedTaskId, oh, DefaultCardHeight))]_vars

\* A drop was committed with the pointer past the right and bottom ends of the
\* canvas: the stored position is the upper end of the range on both axes.
C5_DropClampedAtUpperEnd ==
    /\ last.op = "drop"
    /\ last.calls # <<>>
    /\ last.calls[1].position = Pos(1380 - DefaultCardWidth, 1280 - DefaultCardHeight)

\* C6 as stated: in every reachable state the connector list has an entry
\* for (s, t) exactly when t is in s.nextTaskIds and both cards are mounted.
C6_ConnectorsMatchEdgesAlways ==
    \A s, t \in Ids :
        (\E i \in DOMAIN connectors : connectors[i].sourceId = s /\ connectors[i].targetId = t)
        <=> (<<s, t>> \in Edges(tasks) /\ s \in mounted /\ t \in mounted)

\* C6: whenever no recompute is pending (the 50 ms timer has fired and no
\* drop's recompute is outstanding), the connector list has an entry for
\* (s, t) exactly when t is in s.nextTaskIds and both cards are mounted.
C6_ConnectorsMatchEdgesWhenSettled ==
    (~debounce /\ dropTimers = {}) =>
        \A s, t \in Ids :
            (\E i \in DOMAIN connectors : connectors[i].sourceId = s /\ connectors[i].targetId = t)
            <=> (<<s, t>> \in Edges(tasks) /\ s \in mounted /\ t \in mounted)

\* The canvas has settled after a graph mutation, with a connector drawn.
C6_SettledWithConnector ==
    /\ ~debounce
    /\ dropTimers = {}
    /\ last.op = "recompute"
    /\ connectors # <<>>
    /\ \E i \in DOMAIN tasks : Len(tasks[i].nextTaskIds) > 0 /\ tasks[i].id = "t2"

\* C7: while canEdit is false, each of dragStart, dragOver, drop,
\* startConnection, endConnection, pointer-up, delete-edge, remove-task and
\* status-change issues no callback and leaves the graph and its history as
\* they were; all but pointer-up leave the gesture state as it was too.
C7_NonEditorsMutateNothing ==
    [][(/\ ~canEdit
        /\ last'.op \in {"dragStart", "dragOver", "drop", "startConnection", "endConnection",
                         "mouseUp", "deleteConnection", "removeTask", "updateStatus"}) =>
          /\ last'.calls = <<>>
          /\ tasks' = tasks
          /\ undoStack' = undoStack
          /\ last'.op # "mouseUp" => UNCHANGED <<connectingState, draggedTaskId, dragOffset, grab>>]_vars

\* A non-editor dropped while a drag begun under an editing role was pending.
C7_ViewerDroppedPendingDrag ==
    ~canEdit /\ last.op = "drop" /\ last.from # NoId

\* C8: canEdit holds exactly for owner, admin and editor, canManage exactly
\* for owner and admin, canManage implies canEdit, and the membership modal's
\* capability is canManage's.
C8_CapabilitiesFollowRole ==
    /\ canEdit <=> userRole \in {"owner", "admin", "editor"}
    /\ canManage <=> userRole \in {"owner", "admin"}
    /\ canManage => canEdit
    /\ canManageMembers <=> canManage

\* The role lookup resolved to editor: a role that edits but does not manage.
C8_EditorResolved ==
    last.op = "loadUserRole" /\ userRole = "editor" /\ canEdit /\ ~canManage

C10_MouseUpCancelsConnect ==
    (last.op = "mouseUp" /\ last.from # NoId) =>
        /\ connectingState = NoConn
        /\ last.calls = <<>>
        /\ tasks = last.before

\* A pointer-up landed on the canvas while a connect gesture was active.
C10_MouseUpWhileConnecting ==
    last.op = "mouseUp" /\ last.from # NoId

\* The reload call of the subscription callback.
ReloadCall == Call("window.location.reload", NoId, NoPos, <<>>, "")

\* C11: when the open channel has delivered an update of the project row
\* (table projects, event UPDATE), whether this client or another one made
\* it, the callback has reloaded the application: the local state is gone (the
\* history, a gesture under way, the calls in flight, the resolved role) and
\* the tasks are those the server holds.
C11_ProjectUpdateReloads ==
    (last.op \in {"onOwnUpdate", "onRemoteUpdate"} /\ last.id = "projects" /\ last.from = "UPDATE")
        => /\ last.calls = <<ReloadCall>>
           /\ tasks \in ServerTasks
           /\ undoStack = <<>> /\ redoStack = <<>>
           /\ connectingState = NoConn /\ draggedTaskId = NoId
           /\ pending = {}
           /\ userRole = "viewer" /\ ~isSaving /\ ~isMembersModalOpen

\* This client's own update came back to it and the reload dropped a local
\* removal that was never saved.
C11_OwnUpdateDroppedLocalEdit ==
    /\ last.op = "onOwnUpdate"
    /\ last.calls = <<ReloadCall>>
    /\ Len(last.before) < Len(tasks)

\* C12: a change of the member list delivered to the client makes it fetch
\* the membership data again (and does not reload the application).
C12_MemberChangeRefetches ==
    (last.op = "onRemoteUpdate" /\ last.id = "project_members")
        => /\ ReloadCall \notin Range(last.calls)
           /\ \E i \in DOMAIN last.calls : last.calls[i].fn = "getProjectMembers"

\* C13: however the project is switched, closed and the component torn
\* down, at most one change subscription is open, it is the one of the
\* current project, and none is open while no project is open or after the
\* component has unmounted.
C13_OneSubscriptionOfCurrentProject ==
    /\ Len(channels) <= 1
    /\ \A i \in DOMAIN channels : channels[i].name = currentProjectId
    /\ (currentProjectId = NoId \/ ~alive) => channels = <<>>

\* The project was switched from one id to another and the open
\* subscription is the new project's.
C13_SwitchedBetweenProjects ==
    /\ last.op = "currentProjectId"
    /\ last.from \in ProjectIds
    /\ last.id \in ProjectIds
    /\ channels = <<subscribeToProjectUpdates(last.id)>>

\* C14: undo() called on an empty undo stack and redo() called on an empty
\* redo stack change neither the graph nor either stack; the buttons call
\* them only when canUndo and canRedo allow it, and these say exactly
\* whether the stack of each holds an entry.
C14_EmptyStackCallsChangeNothing ==
    [][/\ (last'.op = "undo()" /\ undoStack = <<>>) => UNCHANGED <<tasks, undoStack, redoStack>>
       /\ (last'.op = "redo()" /\ redoStack = <<>>) => UNCHANGED <<tasks, undoStack, redoStack>>
       /\ last'.op = "undo" => canUndo
       /\ last'.op = "redo" => canRedo
       /\ canUndo' <=> Len(undoStack') > 0
       /\ canRedo' <=> Len(redoStack') > 0]_vars

\* undo() was called with nothing to undo while a redo was at hand.
C14_UndoCalledOnEmptyStack ==
    /\ last.op = "undo()"
    /\ undoStack = <<>>
    /\ redoStack # <<>>
    /\ last.before = tasks

\* undo() called k times in a row on the history h.
RECURSIVE undoTimes(_, _)
undoTimes(h, k) == IF k = 0 THEN h ELSE undoTimes(undo(h), k - 1)

\* C16: undo takes commits back in the reverse of the order they were made
\* in: with n commits standing, which produced the graphs s0..sn, k <= n
\* calls of undo() in a row leave the graph s(n-k).
C16_UndoIsLastInFirstOut ==
    /\ head = Len(undoStack) + 1
    /\ \A k \in 0..Len(undoStack) :
           GraphOf(undoTimes(History, k).tasks) = timeline[head - k]

\* One card was moved three times, to a different place each time, and two
\* undos have left it where the first move put it.
C16_ThreeMovesTwoUndos ==
    /\ last.op \in {"undo", "undo()"}
    /\ Len(timeline) = 4
    /\ Len(undoStack) = 1
    /\ Len(redoStack) = 2
    /\ Cardinality(Range(timeline)) = 4
    /\ GraphOf(tasks) = timeline[2]

\* The handlers whose callback commits a graph mutation: move, connect,
\* disconnect, add, remove and auto-layout.
CommitOps == {"drop", "endConnection", "deleteConnection", "addTask", "removeTask", "autoLayout"}

\* C15: every committed mutation (move, add, remove, connect, disconnect,
\* auto-layout) adds exactly one entry to the undo stack and leaves the redo
\* stack empty, so that nothing can be redone after a mutation that follows
\* an undo.
C15_CommitPushesOneAndClearsRedo ==
    [][(last'.op \in CommitOps /\ last'.calls # <<>>)
          => /\ Len(undoStack') = Len(undoStack) + 1
             /\ SubSeq(undoStack', 1, Len(undoStack)) = undoStack
             /\ redoStack' = <<>>
             /\ ~canRedo']_vars

\* A task was removed right after an undo: the removal is the only entry, so
\* the stack was empty before it, and an id was handed out to a task that
\* was not there, so the commit that added it had been undone.
C15_CommittedAfterUndo ==
    /\ last.op = "removeTask"
    /\ last.calls # <<>>
    /\ Len(undoStack) = 1
    /\ redoStack = <<>>
    /\ "t3" \in usedIds
    /\ "t3" \notin TaskIds(last.before)

\* The calls that write the graph to the server, and the call that writes
\* the visibility flag (toggleProjectVisibility calls updateProject).
GraphWrites == {"createProject", "onSaveProject"}
ProjectWrites == GraphWrites \cup {"toggleProjectVisibility"}

\* C17 as stated: nothing but an explicit save request of a user who may
\* edit invokes the persistence collaborator.
C17_OnlySaveWritesTheProject ==
    \A i \in DOMAIN last.calls :
        last.calls[i].fn \in ProjectWrites => (last.op = "saveProject" /\ canEdit)

\* C17: no graph mutation or gesture (move, connect, disconnect, add,
\* remove, undo, redo) invokes the persistence collaborator. The graph is
\* written only by an explicit save request of a user who may edit; the one
\* other write is the visibility flag, by the toggle of a user who may
\* manage.
C17_GraphWrittenOnlyBySave ==
    \A i \in DOMAIN last.calls :
        /\ last.calls[i].fn \in GraphWrites => (last.op = "saveProject" /\ canEdit)
        /\ last.calls[i].fn \in ProjectWrites \ GraphWrites
               => (last.op = "toggleVisibility" /\ canManage)

\* An edited graph with an undoable mutation is being saved on request.
C17_SavedAfterEditing ==
    /\ last.op = "saveProject"
    /\ \E i \in DOMAIN last.calls : last.calls[i].fn \in GraphWrites
    /\ undoStack # <<>>
    /\ isSaving

\* The edge from s to t has an entry among the connectors.
Drawn(s, t) == \E i \in DOMAIN connectors : connectors[i].sourceId = s /\ connectors[i].targetId = t

\* C18: a recompute run while the card of an edge's target (or source) is
\* not mounted leaves that edge without a connector and still produces the
\* connectors of the edges whose cards are mounted; a recompute run once the
\* card is mounted produces the edge's connector.
C18_RecomputeDrawsMeasurableEdges ==
    last.op = "recompute" =>
        \A e \in Edges(tasks) : Drawn(e[1], e[2]) <=> (e[1] \in mounted /\ e[2] \in mounted)

\* A recompute ran while the added task's card was not mounted: the edge to
\* it is left out and the edge between the mounted cards is drawn.
C18_EdgeToUnmountedLeftOut ==
    /\ last.op = "recompute"
    /\ <<"t1", "t3">> \in Edges(tasks)
    /\ "t3" \notin mounted
    /\ ~Drawn("t1", "t3")
    /\ Drawn("t1", "t2")

\* C19: a gated entry point called by a user without the permission it asks
\* for (here the save, by a user who may not edit, and the visibility
\* toggle, by a user who may not manage) changes nothing and tells the user
\* nothing.
C19_DenialIsSilent ==
    /\ (last.op = "saveProject" /\ ~canEdit) => (last.calls = <<>> /\ ~isSaving)
    /\ (last.op = "toggleVisibility" /\ ~canManage) => last.calls = <<>>

\* C20: when a collaborator call has failed (save, role fetch, project
\* fetch, visibility toggle, members fetch, invite), the user has been shown
\* a message, by an alert or in the members modal, the task list is as it
\* was, and the in-progress flag of the call is reset.
C20_FailuresAreShown ==
    last.from = "rejected" =>
        /\ \/ \E i \in DOMAIN last.calls : last.calls[i].fn = "alert"
           \/ modalError # NoId
        /\ tasks = last.before
        /\ last.op = "saveSettled" => ~isSaving
        /\ last.op \in {"inviteSettled", "inviteLoadDataSettled"} => ~isInviting

\* C21: a move gesture and a connect gesture are never under way together:
\* in no state is a dragged task id set while the connecting state is not
\* null.
C21_GesturesNeverOverlap ==
    ~(draggedTaskId # NoId /\ connectingState.active)

\* C22: after every call of handleEndConnection and after every pointer-up
\* on the canvas, under whatever role the handler finds, the connecting
\* state is null.
C22_ConnectingStateEndsWithGesture ==
    last.op \in {"endConnection", "mouseUp"} => connectingState = NoConn

\* C23: a drop handled for a user who may edit, with a dragged id set by a
\* dragStart, issues exactly one onUpdateTaskPosition, for the dragged task,
\* the task list is the old one with that task at the committed position,
\* and the dragged id is cleared; a drop with no dragged id issues nothing
\* and changes nothing.
C23_DropCommitsOnceAndClears ==
    (last.op = "drop" /\ canEdit) =>
        IF last.from # NoId
        THEN /\ Len(last.calls) = 1
             /\ last.calls[1].fn = "onUpdateTaskPosition"
             /\ last.calls[1].id = last.from
             /\ tasks = updateNodePosition(last.before, last.from, last.calls[1].position)
             /\ draggedTaskId = NoId
        ELSE /\ last.calls = <<>>
             /\ tasks = last.before
             /\ draggedTaskId = NoId

\* An editor's drop has moved the dragged card to another place.
C23_EditorDroppedElsewhere ==
    /\ last.op = "drop"
    /\ canEdit
    /\ last.from # NoId
    /\ tasks # last.before
    /\ draggedTaskId = NoId

\* v brought into [0, hi], or to 0 where hi is negative.
Into(v, hi) == IF v < 0 \/ hi < 0 THEN 0 ELSE IF v > hi THEN hi ELSE v

\* C24: a task at position q (unset counting as the origin) grabbed with the
\* pointer at p0 and dropped with the pointer at p, the container's
\* rectangle being the same at both events, is committed at q + (p - p0)
\* brought into the clamp range on each axis; dropped at p = p0 from inside
\* the range it keeps the coordinates of q.
C24_DropMovesByPointerTravel ==
    [][\A cx, cy \in ClientCoords, sw \in ScrollWidths, sh \in ScrollHeights,
          ow \in CardWidths, oh \in CardHeights :
          (canEdit /\ draggedTaskId # NoId /\ handleDrop(cx, cy, 0, 0, sw, sh, ow, oh)) =>
              LET stored == FindTask(tasks', draggedTaskId).position
                  qx == IF grab.position.set THEN grab.position.x ELSE 0
                  qy == IF grab.position.set THEN grab.position.y ELSE 0
                  hix == sw - cardExtent(draggedTaskId, ow, DefaultCardWidth)
                  hiy == sh - cardExtent(draggedTaskId, oh, DefaultCardHeight)
              IN /\ stored.set
                 /\ stored.x = Into(qx + (cx - grab.x), hix)
                 /\ stored.y = Into(qy + (cy - grab.y), hiy)
                 /\ (cx = grab.x /\ 0 <= qx /\ qx <= hix) => stored.x = qx
                 /\ (cy = grab.y /\ 0 <= qy /\ qy <= hiy) => stored.y = qy]_vars

\* A card lying at (Grid, 0) was grabbed with the pointer on its corner and
\* dropped with the pointer at the origin: it is committed at the origin.
C24_DraggedBackToOrigin ==
    /\ last.op = "drop"
    /\ last.calls # <<>>
    /\ grab = [x |-> Grid, y |-> 0, position |-> Pos(Grid, 0)]
    /\ last.calls[1].position = Pos(0, 0)

\* The recomputes that are scheduled and have not run: the 50 ms timer and
\* the timers set by drops.
PendingRecomputes == Cardinality(dropTimers) + (IF debounce THEN 1 ELSE 0)

\* C25: at most one recompute is scheduled at any time, and a recompute
\* that has run computed the connectors from the task list of that moment,
\* not from a list a later mutation has replaced.
C25_OneRecomputeFromLatestGraph ==
    /\ PendingRecomputes <= 1
    /\ last.op = "recompute" =>
           \E rect \in Rects : connectors = calculateConnectors(tasks, mounted, rect)

\* xs holds its entries in the order ys holds them.
InOrderOf(xs, ys) ==
    \A i, j \in DOMAIN xs :
        i < j => \E k, l \in DOMAIN ys : k < l /\ ys[k] = xs[i] /\ ys[l] = xs[j]

\* C26: deleting the edge a -> b takes exactly that edge out of the graph:
\* the other targets of a stay, in the order they had, every other task and
\* a's position and status are as before, and deleting an edge that is not
\* there leaves the edges as they are. Deleting a -> b right after the commit
\* that drew it gives back the graph from before the drawing, and with it
\* the connectors a recompute produces.
C26_DeleteRemovesExactlyTheEdge ==
    (last.op = "deleteConnection" /\ last.calls # <<>>) =>
        LET a == last.from
            b == last.id
            old == FindTask(last.before, a)
            new == FindTask(tasks, a)
        IN /\ Edges(tasks) = Edges(last.before) \ {<<a, b>>}
           /\ Len(new.nextTaskIds) = Cardinality(Range(old.nextTaskIds) \ {b})
           /\ InOrderOf(new.nextTaskIds, old.nextTaskIds)
           /\ new = [old EXCEPT !.nextTaskIds = new.nextTaskIds]
           /\ Len(tasks) = Len(last.before)
           /\ \A i \in DOMAIN tasks : tasks[i].id # a => tasks[i] = last.before[i]
           /\ (head >= 3 /\ <<a, b>> \notin Edges(timeline[head - 2])
                         /\ Edges(timeline[head - 1]) = Edges(timeline[head - 2]) \cup {<<a, b>>})
                  => /\ GraphOf(tasks) = timeline[head - 2]
                     /\ \A rect \in Rects :
                            calculateConnectors(tasks, TaskIds(tasks), rect)
                                = calculateConnectors(timeline[head - 2], TaskIds(tasks), rect)

\* The edge t1 -> t3 was drawn after t1 -> t2 and t1 -> t4 and deleted
\* again: t1 points to t2 and t4 as it did before.
C26_DrawnAndDeleted ==
    /\ last.op = "deleteConnection"
    /\ last.from = "t1"
    /\ last.id = "t3"
    /\ head >= 3
    /\ <<"t1", "t3">> \in Edges(timeline[head - 1])
    /\ <<"t1", "t3">> \notin Edges(timeline[head - 2])
    /\ FindTask(tasks, "t1").nextTaskIds = <<"t2", "t4">>

\* The coordinates of a position, an unset one counting as the origin.
At(t) == IF t.position = NoPos THEN [x |-> 0, y |-> 0] ELSE [x |-> t.position.x, y |-> t.position.y]

\* Every connector of cs joins the ends of an edge of ts at the right edge
\* and the left edge of their cards, half-way down each.
Anchored(ts, rect, cs) ==
    \A i \in DOMAIN cs :
        /\ <<cs[i].sourceId, cs[i].targetId>> \in Edges(ts)
        /\ HasTask(ts, cs[i].targetId)
        /\ LET s == At(FindTask(ts, cs[i].sourceId))
               t == At(FindTask(ts, cs[i].targetId))
               sr == rect[cs[i].sourceId]
               tr == rect[cs[i].targetId]
           IN /\ cs[i].from = [x |-> s.x + sr.width, y |-> s.y + (sr.height \div 2)]
              /\ cs[i].to = [x |-> t.x, y |-> t.y + (tr.height \div 2)]

\* The entries of cs that join s to t.
Joining(cs, s, t) == {i \in DOMAIN cs : cs[i].sourceId = s /\ cs[i].targetId = t}

DistinctIds(cs) == \A i, j \in DOMAIN cs : cs[i].id = cs[j].id => i = j

\* One connector for every edge of ts.
OnePerEdge(ts, cs) ==
    \A e \in Edges(ts) : Cardinality(Joining(cs, e[1], e[2])) = 1

\* One connector for every edge of ts whose two cards are in mnt, none for
\* any other edge.
OnePerMeasuredEdge(ts, mnt, cs) ==
    \A e \in Edges(ts) :
        Cardinality(Joining(cs, e[1], e[2])) = IF e[1] \in mnt /\ e[2] \in mnt THEN 1 ELSE 0

C28_SettledConnectorsFollowTheMove ==
    PendingRecomputes = 0 =>
        \E rect \in Rects : connectors = calculateConnectors(tasks, mounted, rect)

\* The first card was dropped at the far corner, every timer has fired, and
\* its connector starts at the right edge of the card where it lies now.
C28_SettledAfterMove ==
    /\ PendingRecomputes = 0
    /\ grab # NoGrab
    /\ FindTask(tasks, "t1").position = Pos(Grid, Grid)
    /\ \E i \in DOMAIN connectors :
           /\ connectors[i].sourceId = "t1"
           /\ connectors[i].from = [x |-> Grid + 380, y |-> Grid + 140]

\* C29: the role the capabilities are computed from is 'viewer' or the role
\* of the member row of the project that is open, and the public flag is
\* unset or the flag of that project's row: with another project open (or
\* none), neither is what was fetched for a project opened before.
C29_GatedByTheOpenProject ==
    /\ userRole \in {"viewer"} \cup
                    (IF currentProjectId = NoId THEN {} ELSE {MemberRole(currentProjectId)})
    /\ isPublic => currentProjectId # NoId /\ ProjectPublic(currentProjectId)

\* C30: while the role lookup of the open project has not settled, and
\* right after a lookup resolved with null, the role is 'viewer' and neither
\* capability holds.
C30_ViewerUntilResolvedAndOnNull ==
    (\/ roleLookup(currentProjectId) \cap pending # {}
     \/ last.op = "getUserRole" /\ last.from = "null")
        => userRole = "viewer" /\ ~canEdit /\ ~canManage

\* C35: when a drag has ended with the dragged id still set (no drop on the
\* canvas took it), a drop that comes next, with no dragStart in between,
\* moves nothing.
C35_AbandonedDragIsNotDropped ==
    [][(last.op = "dragEnd" /\ last.from # NoId /\ last'.op = "drop") => tasks' = tasks]_vars

\* C36 as stated: a committed connect(a, b) leaves a's list as it was with b
\* appended last, and every other task, and a's position and status, as
\* they were.
C36_ConnectAppendsLast ==
    (last.op = "endConnection" /\ last.calls # <<>>) =>
        LET old == FindTask(last.before, last.from)
            new == FindTask(tasks, last.from)
        IN /\ new = [old EXCEPT !.nextTaskIds = Append(old.nextTaskIds, last.id)]
           /\ Len(tasks) = Len(last.before)
           /\ \A i \in DOMAIN tasks : tasks[i].id # last.from => tasks[i] = last.before[i]

\* C36, amended: a committed connect(a, b) leaves a's list as it was with b
\* appended last when a did not point to b, and as it was when it did; every
\* other task, and a's position and status, are as they were.
C36_ConnectAppendsNewTargetLast ==
    (last.op = "endConnection" /\ last.calls # <<>>) =>
        LET old == FindTask(last.before, last.from)
            new == FindTask(tasks, last.from)
        IN /\ new = [old EXCEPT !.nextTaskIds =
                         IF last.id \in Range(old.nextTaskIds) THEN old.nextTaskIds
                         ELSE Append(old.nextTaskIds, last.id)]
           /\ Len(tasks) = Len(last.before)
           /\ \A i \in DOMAIN tasks : tasks[i].id # last.from => tasks[i] = last.before[i]

\* t1 pointed to t2 and t4 and was connected to t3: it points to t2, t4 and
\* t3, in that order.
C36_ThirdTargetAppended ==
    /\ last.op = "endConnection"
    /\ last.calls # <<>>
    /\ last.id = "t3"
    /\ FindTask(last.before, "t1").nextTaskIds = <<"t2", "t4">>
    /\ FindTask(tasks, "t1").nextTaskIds = <<"t2", "t4", "t3">>

\* C31: toggleProjectVisibility flips the stored flag and returns the new
\* stored value: after n completed toggles by any clients, in any
\* interleaving, the stored isPublic is the initial one if n is even and its
\* negation if n is odd, and a call's return value is the stored flag right
\* after that call's write. Fails: the flag is read by one request and
\* written by another, so two calls that both read before either writes
\* write the same value, and two toggles leave the flag flipped once.
C31_TogglesFlipTheStoredFlag ==
    /\ db.isPublic = (InitDb.isPublic # (rpc.toggles % 2 = 1))
    /\ (last.op = "toggleProjectVisibility" /\ last.from \in {Bool(TRUE), Bool(FALSE)})
           => last.from = Bool(db.isPublic)

\* C32: whenever accept-invitation has succeeded on the server, the
\* invitation modal is in its success state and hands the joined project to
\* onSuccess; it shows an error only when the server reported a failure or
\* the call threw. Fails: the server names the project project_id and the
\* modal reads projectId.
C32_ServerSuccessIsShown ==
    (last.op = "acceptInvitation" /\ last.from = Bool(TRUE))
        => /\ acceptModal.success
           /\ acceptModal.redirect = "p1"
           /\ acceptModal.error = NoId

C34_ExactlyOneOwner ==
    db.exists => {user \in Users : RoleIn(db, user) = "owner"} = {"ann"}

\* C38: a project has at most one invitation per address: an invite of an
\* address that has an invitation row already, pending or accepted, fails
\* with the 'already invited' error and changes no invitation and no member.
\* Fails for a caller who is not an owner or admin of the project: the policy
\* turns the insert down before the unique constraint is looked at, and the
\* service reports its general error.
C38_SecondInviteIsAlreadyInvited ==
    [][\A user \in Users, email \in UserEmails, role \in InviteRoles :
          (db.invitations[email] # NoInv /\ inviteToProject(user, email, role))
              => (last'.from = "alreadyInvited" /\ db' = db)]_vars

\* C38 as it holds: the invite of an address that has an invitation row
\* changes nothing whoever makes it; made by an owner or admin it fails with
\* the 'already invited' error, made by anyone else with the general one.
C38_SecondInviteChangesNothing ==
    [][\A user \in Users, email \in UserEmails, role \in InviteRoles :
          (db.invitations[email] # NoInv /\ inviteToProject(user, email, role))
              => /\ db' = db
                 /\ last'.from = IF RoleIn(db, user) \in {"owner", "admin"}
                                 THEN "alreadyInvited" ELSE "inviteFailed"]_vars

\* The owner has invited an address a second time, after its first
\* invitation was accepted.
C38_InvitedAgainAfterAccept ==
    /\ last.op = "inviteToProject"
    /\ last.from = "alreadyInvited"
    /\ db.invitations[last.id].accepted

\* C37: the edit gate of the client is the update policy of the server. A
\* project update called on the service changes the stored project exactly
\* when the caller's member row says owner, admin or editor, which is when
\* the component that has looked up that row offers editing; a delete removes
\* the project only when the caller is its owner. A viewer and a user who is
\* no member change nothing, whatever they call.
C37_GateIsThePolicy ==
    [][\A user \in Users :
          /\ (\E flag \in BOOLEAN : updateProject(user, flag))
                 => (db' # db <=> db.members[user] \in {"owner", "admin", "editor"})
          /\ deleteProject(user)
                 => /\ db' # db => db.members[user] = "owner"
                    /\ ~db'.exists <=> db.members[user] = "owner"
          /\ getUserRole(user)
                 => (canEdit' <=> db.members[user] \in {"owner", "admin", "editor"})
          /\ db.members[user] \in {NoId, "viewer"}
                 => (last'.id = user /\ last'.op \in {"updateProject", "deleteProject"}
                         => db' = db)]_vars

\* Bob, a viewer, has called updateProject and got an error.
C37_ViewerTurnedDown ==
    /\ last.op = "updateProject"
    /\ last.id = "bob"
    /\ last.from = Outcome(FALSE)
    /\ db.members["bob"] = "viewer"

====
